---- MODULE Spec2Model ----
(***************************************************************************)
(* Model of the client-side state managers of the Light of Data website.   *)
(* Cookie-consent manager: initCookieConsent and the functions it defines  *)
(* (src/src/test/projects.test.js, lines 259-516).                         *)
(***************************************************************************)
EXTENDS Integers, Sequences, FiniteSets, TLC

(***************************************************************************)
(* Bounds of the model.                                                    *)
(***************************************************************************)
\* Date.now() is drawn from 1..MaxClock
MaxClock == 2

\* a link click is taken while fewer than MaxTimers scroll timers are pending
MaxTimers == 2

(***************************************************************************)
(* JavaScript values: <<tag, payload>>.  The tag is compared first, so     *)
(* values of different types are unequal (strict equality, ===).           *)
(***************************************************************************)
Undefined == <<"undefined", "">>
Null == <<"null", "">>
Bool(b) == <<"boolean", b>>
Num(n) == <<"number", n>>
Str(s) == <<"string", s>>
\* an object is the sequence of its <<key, value>> pairs in insertion order
Obj(fields) == <<"object", fields>>

TagOf(v) == v[1]

\* ToBoolean: false, 0, "", null and undefined are falsy; all else truthy
Truthy(v) ==
  CASE TagOf(v) = "undefined" -> FALSE
    [] TagOf(v) = "null" -> FALSE
    [] TagOf(v) = "boolean" -> v[2]
    [] TagOf(v) = "number" -> v[2] # 0
    [] TagOf(v) = "string" -> v[2] # ""
    [] OTHER -> TRUE

\* the outcome of evaluating an expression: a value, or a thrown exception
Return(v) == [threw |-> FALSE, val |-> v]
Throw == [threw |-> TRUE, val |-> Undefined]

RECURSIVE Lookup(_, _, _)
\* the value of the last pair of fields[1..i] whose key is k
Lookup(fields, k, i) ==
  IF i = 0 THEN Undefined
  ELSE IF fields[i][1] = k THEN fields[i][2]
  ELSE Lookup(fields, k, i - 1)

\* v.k : a TypeError on null and undefined, undefined on other primitives
GetProp(v, k) ==
  IF TagOf(v) \in {"undefined", "null"} THEN Throw
  ELSE IF TagOf(v) = "object" THEN Return(Lookup(v[2], k, Len(v[2])))
  ELSE Return(Undefined)

(***************************************************************************)
(* JSON text is a sequence of tokens: punctuation, string literals,        *)
(* number literals, the literals true/false/null, and words that are not   *)
(* JSON at all.                                                            *)
(***************************************************************************)
P(c) == <<"punct", c>>
S(s) == <<"strlit", s>>
N(n) == <<"numlit", n>>
L(w) == <<"literal", w>>
W(w) == <<"word", w>>

RECURSIVE ValueTokens(_)
RECURSIVE MemberTokens(_, _, _)
\* the tokens JSON.stringify emits for a value
ValueTokens(v) ==
  CASE TagOf(v) = "null" -> <<L("null")>>
    [] TagOf(v) = "boolean" -> <<L(IF v[2] THEN "true" ELSE "false")>>
    [] TagOf(v) = "number" -> <<N(v[2])>>
    [] TagOf(v) = "string" -> <<S(v[2])>>
    [] TagOf(v) = "object" -> <<P("{")>> \o MemberTokens(v[2], 1, TRUE) \o <<P("}")>>
    [] OTHER -> <<>>

\* members i.. of an object; members whose value is undefined are omitted
MemberTokens(fields, i, first) ==
  IF i > Len(fields) THEN <<>>
  ELSE IF TagOf(fields[i][2]) = "undefined" THEN MemberTokens(fields, i + 1, first)
  ELSE (IF first THEN <<>> ELSE <<P(",")>>)
       \o <<S(fields[i][1]), P(":")>> \o ValueTokens(fields[i][2])
       \o MemberTokens(fields, i + 1, FALSE)

JSONstringify(v) == ValueTokens(v)

ParseFail == [ok |-> FALSE, val |-> Undefined, next |-> 0]
ParseOk(v, n) == [ok |-> TRUE, val |-> v, next |-> n]

RECURSIVE ParseValue(_, _)
RECURSIVE ParseMembers(_, _, _)
\* parse one JSON value starting at token i
ParseValue(toks, i) ==
  IF i > Len(toks) THEN ParseFail
  ELSE LET t == toks[i] IN
    CASE t[1] = "strlit" -> ParseOk(Str(t[2]), i + 1)
      [] t[1] = "numlit" -> ParseOk(Num(t[2]), i + 1)
      [] t[1] = "literal" ->
           ParseOk(IF t[2] = "null" THEN Null ELSE Bool(t[2] = "true"), i + 1)
      [] t[1] = "punct" ->
           IF t[2] # "{" THEN ParseFail
           ELSE IF i + 1 <= Len(toks) /\ toks[i + 1] = P("}")
                THEN ParseOk(Obj(<<>>), i + 2)
                ELSE ParseMembers(toks, i + 1, <<>>)
      [] OTHER -> ParseFail

\* parse  "key" : value  ( , "key" : value )*  }  starting at token i
ParseMembers(toks, i, acc) ==
  IF i + 1 > Len(toks) \/ toks[i][1] # "strlit" \/ toks[i + 1] # P(":")
  THEN ParseFail
  ELSE LET r == ParseValue(toks, i + 2) IN
    IF ~r.ok \/ r.next > Len(toks) THEN ParseFail
    ELSE LET acc2 == Append(acc, <<toks[i][2], r.val>>) IN
      IF toks[r.next] = P("}") THEN ParseOk(Obj(acc2), r.next + 1)
      ELSE IF toks[r.next] = P(",") THEN ParseMembers(toks, r.next + 1, acc2)
      ELSE ParseFail

\* JSON.parse: a SyntaxError unless the whole text is one value
JSONparse(toks) ==
  LET r == ParseValue(toks, 1) IN
    IF r.ok /\ r.next = Len(toks) + 1 THEN Return(r.val) ELSE Throw


(***************************************************************************)
(* Cookie-consent manager.                                                 *)
(***************************************************************************)
VARIABLES
  phase,            \* "unloaded": no page script has run; "ready": initCookieConsent has run
  storage,          \* localStorage under COOKIE_CONSENT_KEY: [present, text]
  hasOverlay,       \* #cookie-consent-overlay exists
  hasAnalyticsCb,   \* #analytics-consent exists
  hasMarketingCb,   \* #marketing-consent exists
  gtagAvailable,    \* typeof gtag === "function"
  shown,            \* the overlay carries the class "show"
  analyticsChecked, \* #analytics-consent.checked
  marketingChecked, \* #marketing-consent.checked
  focus,            \* the element holding keyboard focus
  timerPending,     \* the setTimeout(showCookieDialog, 500) of this page has not fired
  issued,           \* the gtag("consent","update",...) payloads issued by the last step
  lastUpdate,       \* <<p>> for the last payload p issued on this page, <<>> if none
  lastWrite,        \* localStorage.setItem in the last step: "none", "ok", "failed"
  lastEvent,        \* the handler the last step ran
  choice,           \* the (analytics, marketing) the last step passed to handleConsentChoice
  choseA,           \* history: the user made a consent choice with analytics = true
  choseM,           \* history: the user made a consent choice with marketing = true
  writer,           \* the event whose setItem wrote the stored value ("none": found at the first load)
  decided,          \* a valid record existed at this page's load, or a choice was made on it
  ret               \* the outcome of the last call of an exported function

\* the theme manager (theme.js)
VARIABLES
  dataTheme,        \* data-theme attribute of the root element; Null when unset
  themeItem,        \* localStorage.getItem("theme"); Null when the key is absent
  systemDark,       \* matchMedia("(prefers-color-scheme: dark)").matches
  mediaListener,    \* the change listener of this page is registered on systemDark
  hasGithubIcon,    \* #github-icon is in the markup
  hasLinkedInIcon,  \* #linkedin-icon is in the markup
  hasIconLink,      \* a link[rel~='icon'] is in the markup
  githubSrc,        \* #github-icon.src, "none" without the element
  linkedinSrc,      \* #linkedin-icon.src, "none" without the element
  iconHref,         \* href of the first link[rel~='icon'], "none" while there is none
  domReady,         \* DOMContentLoaded has been dispatched on this page
  themeEvent,       \* the theme handler the last step ran
  themeThrew,       \* that handler ended with an uncaught exception
  themeWrite,       \* localStorage.setItem("theme", ...) in the last step: "none", "ok", "failed"
  themeCall,        \* the arguments of the last direct call of setTheme
  manualTheme,      \* history: the theme the last toggleTheme() set on the root, Null if none
  manualSaved,      \* history: the setItem of that toggleTheme() did not throw
  manualHere        \* history: toggleTheme() has run on this page

(***************************************************************************)
(* The navigation manager (src/src/navigation.js).                         *)
(***************************************************************************)
VARIABLES
  hasMenuToggle,    \* the document has #menu-toggle
  hasNavLinks,      \* the document has #nav-links
  hasNav,           \* the document has a nav element
  hasLogo,          \* the document has ".logo a"
  navOffsetHeight,  \* offsetHeight of the nav element now
  navHrefs,         \* the href attributes of the "li a" elements of #nav-links
  offsetTop,        \* offsetTop of each element that has an id, by id
  navMode,          \* "unset" before the script ran, then "none", "anchor", "simple"
  navHeight,        \* the constant navHeight of the anchor branch, 0 before it is set
  navOpen,          \* #nav-links carries the class "open"
  navActive,        \* #nav-links carries the class "active"
  toggleActive,     \* #menu-toggle carries the class "active"
  scrollTimers,     \* the targets of the pending setTimeout callbacks, oldest first
  scrollY,          \* the position window.scrollTo was last asked for
  navEvent,         \* the last step: "none", "init", "toggle", "link", "logo", "timer", "resize"
  navClicked,       \* the href of the link clicked in the last step, <<>> if none
  defaultPrevented, \* the last step called e.preventDefault()
  scrollReq,        \* <<top>> of the window.scrollTo of the last step, <<>> if none
  navThrew,         \* the last handler ended with an uncaught exception
  runStart,         \* history: "open" on #nav-links before the present run of hamburger clicks
  runOdd,           \* history: the present run of hamburger clicks has odd length
  lastClicked,      \* history: <<id>> of the target of the last link click that found one
  lastScrolled      \* history: <<id>> of the target of the last timer callback that ran

consentVars == <<phase, storage, hasOverlay, hasAnalyticsCb, hasMarketingCb, gtagAvailable,
                 shown, analyticsChecked, marketingChecked, focus, timerPending, issued,
                 lastUpdate, lastWrite, lastEvent, choice, choseA,
                 choseM, writer, decided, ret>>

themeVars == <<dataTheme, themeItem, systemDark, mediaListener, hasGithubIcon,
               hasLinkedInIcon, hasIconLink, githubSrc, linkedinSrc, iconHref,
               domReady, themeEvent, themeThrew, themeWrite, themeCall,
               manualTheme, manualSaved, manualHere>>

navVars == <<hasMenuToggle, hasNavLinks, hasNav, hasLogo, navOffsetHeight, navHrefs,
             offsetTop, navMode, navHeight, navOpen, navActive, toggleActive,
             scrollTimers, scrollY, navEvent, navClicked, defaultPrevented,
             scrollReq, navThrew, runStart, runOdd, lastClicked, lastScrolled>>

vars == <<consentVars, themeVars, navVars>>

COOKIE_CONSENT_VERSION == Str("1.0")

\* a string that holds serialized JSON is held as its token sequence
Text(toks) == <<"text", toks>>

NoItem == [present |-> FALSE, text |-> <<>>]
Item(toks) == [present |-> TRUE, text |-> toks]

\* localStorage.getItem(COOKIE_CONSENT_KEY)
getItem(st) == IF st.present THEN Text(st.text) ELSE Null

\* !stored
Not(v) == IF TagOf(v) = "text" THEN v[2] = <<>> ELSE ~Truthy(v)

\* try { body } catch (_e) { return handler }
TryCatch(body, handler) == IF body.threw THEN Return(handler) ELSE body

\* the body without its try/catch
hasValidConsent_NoCatch(st) ==
  LET stored == getItem(st) IN
    IF Not(stored) THEN Return(Bool(FALSE))
    ELSE LET parsed == JSONparse(stored[2]) IN
      IF parsed.threw THEN Throw
      ELSE LET version == GetProp(parsed.val, "version")
               timestamp == GetProp(parsed.val, "timestamp") IN
        IF version.threw THEN Throw
        ELSE Return(Bool(version.val = COOKIE_CONSENT_VERSION
                         /\ Truthy(timestamp.val)))

hasValidConsent(st) ==
  LET stored == getItem(st)
      body ==
        IF Not(stored) THEN Return(Bool(FALSE))
        ELSE LET parsed == JSONparse(stored[2]) IN
          IF parsed.threw THEN Throw
          ELSE LET version == GetProp(parsed.val, "version")
                   timestamp == GetProp(parsed.val, "timestamp") IN
            IF version.threw THEN Throw
            ELSE Return(Bool(version.val = COOKIE_CONSENT_VERSION
                             /\ Truthy(timestamp.val)))
  IN TryCatch(body, Bool(FALSE))

\* the record is returned whatever its version
getConsentPreferences_NoVersionTest(st) ==
  LET stored == getItem(st)
      body ==
        IF Not(stored) THEN Return(Null)
        ELSE LET parsed == JSONparse(stored[2]) IN
          IF parsed.threw THEN Throw
          ELSE LET version == GetProp(parsed.val, "version") IN
            IF version.threw THEN Throw ELSE Return(parsed.val)
  IN TryCatch(body, Null)

getConsentPreferences(st) ==
  LET stored == getItem(st)
      body ==
        IF Not(stored) THEN Return(Null)
        ELSE LET parsed == JSONparse(stored[2]) IN
          IF parsed.threw THEN Throw
          ELSE LET version == GetProp(parsed.val, "version") IN
            IF version.threw THEN Throw
            ELSE IF version.val # COOKIE_CONSENT_VERSION THEN Return(Null)
            ELSE Return(parsed.val)
  IN TryCatch(body, Null)


(***************************************************************************)
(* The functions that change state take and return the page's mutable      *)
(* state as a record w: storage, the dialog, the checkboxes, the focus,    *)
(* the pending timer, the updates issued and the outcome of setItem.       *)
(***************************************************************************)
World ==
  [storage |-> storage, shown |-> shown, analyticsChecked |-> analyticsChecked,
   marketingChecked |-> marketingChecked, focus |-> focus,
   timerPending |-> timerPending, issued |-> <<>>, lastUpdate |-> lastUpdate,
   lastWrite |-> "none", threw |-> FALSE]

Consent(b) == IF b THEN "granted" ELSE "denied"

\* ad_storage copied from the analytics line
Payload_AdStorageFromAnalytics(analytics, marketing) ==
  [analytics_storage |-> Consent(Truthy(analytics)),
   ad_storage |-> Consent(Truthy(analytics)),
   ad_user_data |-> Consent(Truthy(marketing)),
   ad_personalization |-> Consent(Truthy(marketing))]

\* a payload whose keys are driven by the wrong arguments
Payload_Swapped(analytics, marketing) ==
  [analytics_storage |-> Consent(Truthy(marketing)),
   ad_storage |-> Consent(Truthy(analytics)),
   ad_user_data |-> Consent(Truthy(analytics)),
   ad_personalization |-> Consent(Truthy(analytics))]

\* the object literal passed to gtag("consent", "update", ...)
Payload(analytics, marketing) ==
  [analytics_storage |-> Consent(Truthy(analytics)),
   ad_storage |-> Consent(Truthy(marketing)),
   ad_user_data |-> Consent(Truthy(marketing)),
   ad_personalization |-> Consent(Truthy(marketing))]

\* gtag is called without the typeof test: a ReferenceError when it is
\* not defined
updateGoogleConsent_NoGuard(w, analytics, marketing) ==
  IF gtagAvailable
  THEN [w EXCEPT !.issued = Append(@, Payload(analytics, marketing)),
                 !.lastUpdate = <<Payload(analytics, marketing)>>]
  ELSE [w EXCEPT !.threw = TRUE]

updateGoogleConsent(w, analytics, marketing) ==
  IF gtagAvailable
  THEN [w EXCEPT !.issued = Append(@, Payload(analytics, marketing)),
                 !.lastUpdate = <<Payload(analytics, marketing)>>]
  ELSE w

\* a record without its timestamp
Preferences_NoTimestamp(analytics, marketing, now) ==
  Obj(<< <<"version", COOKIE_CONSENT_VERSION>>,
         <<"analytics", analytics>>, <<"marketing", marketing>>,
         <<"essential", Bool(TRUE)>> >>)

\* the record saveConsentPreferences builds
Preferences(analytics, marketing, now) ==
  Obj(<< <<"version", COOKIE_CONSENT_VERSION>>, <<"timestamp", Num(now)>>,
         <<"analytics", analytics>>, <<"marketing", marketing>>,
         <<"essential", Bool(TRUE)>> >>)

\* setItem's exception is not caught
saveConsentPreferences_NoCatch(w, analytics, marketing, now, quota) ==
  LET preferences == Preferences(analytics, marketing, now) IN
    IF quota
    THEN [w |-> [w EXCEPT !.lastWrite = "failed"], out |-> Throw]
    ELSE [w |-> [w EXCEPT !.storage = Item(JSONstringify(preferences)),
                          !.lastWrite = "ok"],
          out |-> Return(preferences)]

\* a category granted in the record already stored stays granted
saveConsentPreferences_Merges(w, analytics, marketing, now, quota) ==
  LET old == getConsentPreferences(w.storage).val
      kept(k, v) == IF Truthy(old) /\ Truthy(GetProp(old, k).val) THEN Bool(TRUE) ELSE v
      preferences == Preferences(kept("analytics", analytics),
                                 kept("marketing", marketing), now) IN
    IF quota
    THEN [w |-> [w EXCEPT !.lastWrite = "failed"], out |-> Return(preferences)]
    ELSE [w |-> [w EXCEPT !.storage = Item(JSONstringify(preferences)),
                          !.lastWrite = "ok"],
          out |-> Return(preferences)]

\* now: Date.now(); quota: localStorage.setItem throws.  Returns the state
\* and the outcome of the call.
saveConsentPreferences(w, analytics, marketing, now, quota) ==
  LET preferences == Preferences(analytics, marketing, now) IN
    IF quota
    THEN [w |-> [w EXCEPT !.lastWrite = "failed"], out |-> Return(preferences)]
    ELSE [w |-> [w EXCEPT !.storage = Item(JSONstringify(preferences)),
                          !.lastWrite = "ok"],
          out |-> Return(preferences)]

\* element.checked = value converts the value to a boolean
updateCheckboxes(w, analytics, marketing) ==
  [w EXCEPT
     !.analyticsChecked = IF hasAnalyticsCb THEN Truthy(analytics) ELSE @,
     !.marketingChecked = IF hasMarketingCb THEN Truthy(marketing) ELSE @]

\* the stored decision reaches the checkboxes but not the consent API
applyStoredConsent_SkipsUpdate(w) ==
  LET preferences == getConsentPreferences(w.storage).val IN
    IF Truthy(preferences)
    THEN updateCheckboxes(w, GetProp(preferences, "analytics").val,
                          GetProp(preferences, "marketing").val)
    ELSE updateCheckboxes(w, Bool(FALSE), Bool(FALSE))

applyStoredConsent(w) ==
  LET preferences == getConsentPreferences(w.storage).val IN
    IF Truthy(preferences)
    THEN LET analytics == GetProp(preferences, "analytics").val
             marketing == GetProp(preferences, "marketing").val
         IN updateCheckboxes(updateGoogleConsent(w, analytics, marketing),
                             analytics, marketing)
    ELSE updateCheckboxes(w, Bool(FALSE), Bool(FALSE))

\* the dialog is displayed with the checkboxes as they were left
showCookieDialog_NoResync(w) ==
  IF hasOverlay
  THEN [w EXCEPT !.shown = TRUE, !.focus = "cookie-consent-close"]
  ELSE w

\* the first 'button, input[type="checkbox"]' of the overlay is its close button
showCookieDialog(w) ==
  IF hasOverlay
  THEN [applyStoredConsent(w) EXCEPT !.shown = TRUE, !.focus = "cookie-consent-close"]
  ELSE w

\* classList.toggle in place of classList.remove
hideCookieDialog_Toggles(w) == IF hasOverlay THEN [w EXCEPT !.shown = ~@] ELSE w

hideCookieDialog(w) == IF hasOverlay THEN [w EXCEPT !.shown = FALSE] ELSE w

\* the choice is saved and the dialog hidden, the consent API is not told
handleConsentChoice_NoUpdate(w, analytics, marketing, now, quota) ==
  LET saved == saveConsentPreferences(w, analytics, marketing, now, quota) IN
    IF saved.out.threw THEN [saved.w EXCEPT !.threw = TRUE]
    ELSE hideCookieDialog(saved.w)

\* an exception thrown by saveConsentPreferences would end the handler
handleConsentChoice(w, analytics, marketing, now, quota) ==
  LET saved == saveConsentPreferences(w, analytics, marketing, now, quota) IN
    IF saved.out.threw THEN [saved.w EXCEPT !.threw = TRUE]
    ELSE hideCookieDialog(updateGoogleConsent(saved.w, analytics, marketing))

\* the dialog is shown by the script itself, not by a timer
initCookieConsent_ShowsAtOnce(w) ==
  LET w1 == applyStoredConsent(w) IN
    IF ~Truthy(hasValidConsent(w1.storage).val)
    THEN showCookieDialog(w1)
    ELSE w1

\* the top level of initCookieConsent
initCookieConsent(w) ==
  LET w1 == applyStoredConsent(w) IN
    IF ~Truthy(hasValidConsent(w1.storage).val)
    THEN [w1 EXCEPT !.timerPending = TRUE]
    ELSE w1


(***************************************************************************)
(* The theme manager.  Its functions act on the part of the page they read *)
(* and write; threw records an uncaught exception.                         *)
(***************************************************************************)
ThemeWorld ==
  [dataTheme |-> dataTheme, themeItem |-> themeItem, githubSrc |-> githubSrc,
   linkedinSrc |-> linkedinSrc, iconHref |-> iconHref,
   mediaListener |-> mediaListener, themeWrite |-> "none", threw |-> FALSE]

updateGithubIcon(t, theme) ==
  IF ~hasGithubIcon THEN t
  ELSE [t EXCEPT !.githubSrc = IF theme = Str("dark")
                               THEN "/images/github-mark-white.svg"
                               ELSE "/images/github-mark.svg"]

\* the LinkedIn icon keeps the variant for the light theme
updateLinkedInIcon_AlwaysBlack(t, theme) ==
  IF ~hasLinkedInIcon THEN t
  ELSE [t EXCEPT !.linkedinSrc = "/images/InBug-Black.png"]

updateLinkedInIcon(t, theme) ==
  IF ~hasLinkedInIcon THEN t
  ELSE [t EXCEPT !.linkedinSrc = IF theme = Str("dark")
                                 THEN "/images/InBug-White.png"
                                 ELSE "/images/InBug-Black.png"]

\* a missing link element is not created
updateHeadIcon_NoCreate(t, theme) ==
  IF t.iconHref = "none" THEN t
  ELSE [t EXCEPT !.iconHref = IF theme = Str("dark")
                              THEN "/images/small/png/logo-small-light-t.png?v=dark"
                              ELSE "/images/small/png/logo-small-dark-t.png?v=light"]

\* a missing link element is created, so the href is set in every case
updateHeadIcon(t, theme) ==
  [t EXCEPT !.iconHref = IF theme = Str("dark")
                         THEN "/images/small/png/logo-small-light-t.png?v=dark"
                         ELSE "/images/small/png/logo-small-dark-t.png?v=light"]

\* the root attribute is set on the automatic path only
setTheme_ManualSkipsAttribute(t, theme, manual, quota) ==
  LET t1 == IF manual THEN t ELSE [t EXCEPT !.dataTheme = theme]
      t2 == updateLinkedInIcon(updateGithubIcon(t1, theme), theme)
      t3 == IF ~manual THEN updateHeadIcon(t2, theme) ELSE t2
  IN IF manual
     THEN IF quota
          THEN [t3 EXCEPT !.themeWrite = "failed", !.threw = TRUE]
          ELSE [t3 EXCEPT !.themeItem = theme, !.themeWrite = "ok"]
     ELSE t3

\* the manual path writes under another key
setTheme_WrongKey(t, theme, manual, quota) ==
  LET t1 == [t EXCEPT !.dataTheme = theme]
      t2 == updateLinkedInIcon(updateGithubIcon(t1, theme), theme)
      t3 == IF ~manual THEN updateHeadIcon(t2, theme) ELSE t2
  IN IF manual
     THEN IF quota
          THEN [t3 EXCEPT !.themeWrite = "failed", !.threw = TRUE]
          ELSE [t3 EXCEPT !.themeWrite = "ok"]
     ELSE t3

\* quota: localStorage.setItem throws; nothing catches it, so it ends
\* setTheme and its caller
setTheme(t, theme, manual, quota) ==
  LET t1 == [t EXCEPT !.dataTheme = theme]
      t2 == updateLinkedInIcon(updateGithubIcon(t1, theme), theme)
      t3 == IF ~manual THEN updateHeadIcon(t2, theme) ELSE t2
  IN IF manual
     THEN IF quota
          THEN [t3 EXCEPT !.themeWrite = "failed", !.threw = TRUE]
          ELSE [t3 EXCEPT !.themeItem = theme, !.themeWrite = "ok"]
     ELSE t3

\* the toggle sets dark whatever the current theme
toggleTheme_AlwaysDark(t, quota) == setTheme(t, Str("dark"), TRUE, quota)

\* the theme that is being left is the one stored
toggleTheme_StoresPrevious(t, quota) ==
  LET current == t.dataTheme
      t1 == setTheme(t, IF current = Str("dark") THEN Str("light") ELSE Str("dark"),
                     TRUE, quota)
  IN IF t1.themeWrite = "ok"
     THEN [t1 EXCEPT !.themeItem = IF current = Str("dark") THEN Str("dark")
                                   ELSE Str("light")]
     ELSE t1

toggleTheme(t, quota) ==
  LET current == t.dataTheme IN
    setTheme(t, IF current = Str("dark") THEN Str("light") ELSE Str("dark"),
             TRUE, quota)

\* the environment's signal is preferred to the stored theme
onDOMContentLoaded_SystemFirst(t) ==
  LET savedTheme == t.themeItem
      initialTheme == IF systemDark THEN Str("dark")
                      ELSE IF Truthy(savedTheme) THEN savedTheme ELSE Str("light")
      t1 == setTheme(t, initialTheme, FALSE, FALSE)
  IN IF ~Truthy(savedTheme) THEN [t1 EXCEPT !.mediaListener = TRUE] ELSE t1

\* the initial theme is applied as a manual choice and so stored
onDOMContentLoaded_StoresInitial(t) ==
  LET savedTheme == t.themeItem
      initialTheme == IF Truthy(savedTheme) THEN savedTheme
                      ELSE IF systemDark THEN Str("dark") ELSE Str("light")
      t1 == setTheme(t, initialTheme, TRUE, FALSE)
  IN IF ~Truthy(savedTheme) THEN [t1 EXCEPT !.mediaListener = TRUE] ELSE t1

\* the DOMContentLoaded listener
onDOMContentLoaded(t) ==
  LET savedTheme == t.themeItem
      initialTheme == IF Truthy(savedTheme) THEN savedTheme
                      ELSE IF systemDark THEN Str("dark") ELSE Str("light")
      t1 == setTheme(t, initialTheme, FALSE, FALSE)
  IN IF ~Truthy(savedTheme) THEN [t1 EXCEPT !.mediaListener = TRUE] ELSE t1

\* the listener applies the environment's value whatever is stored
onSystemChange_IgnoresStorage(t, matches) ==
  setTheme(t, IF matches THEN Str("dark") ELSE Str("light"), FALSE, FALSE)

\* the change listener of systemDark; matches: e.matches
onSystemChange(t, matches) ==
  IF ~Truthy(t.themeItem)
  THEN setTheme(t, IF matches THEN Str("dark") ELSE Str("light"), FALSE, FALSE)
  ELSE t

\* the document as served: no data-theme attribute, the images of the markup
ServedTheme(t) ==
  [t EXCEPT !.dataTheme = Null,
            !.githubSrc = IF hasGithubIcon THEN "/images/github-mark.svg" ELSE "none",
            !.linkedinSrc = IF hasLinkedInIcon THEN "/images/InBug-Black.png" ELSE "none",
            !.iconHref = IF hasIconLink
                         THEN "/images/small/png/logo-small-light-t.png" ELSE "none",
            !.mediaListener = FALSE]

\* the page as served, with its three theme-dependent elements
ThemePage ==
  /\ hasGithubIcon = TRUE
  /\ hasLinkedInIcon = TRUE
  /\ hasIconLink = TRUE
  /\ dataTheme = Null
  /\ githubSrc = "/images/github-mark.svg"
  /\ linkedinSrc = "/images/InBug-Black.png"
  /\ iconHref = "/images/small/png/logo-small-light-t.png"
  /\ mediaListener = FALSE
  /\ domReady = FALSE
  /\ themeEvent = "none"
  /\ themeThrew = FALSE
  /\ themeWrite = "none"
  /\ themeCall = <<>>
  /\ manualTheme = Null
  /\ manualSaved = FALSE
  /\ manualHere = FALSE

\* a page on which the two social icons or the favicon link may be missing
ThemePageDegraded ==
  /\ hasGithubIcon \in BOOLEAN
  /\ hasLinkedInIcon \in BOOLEAN
  /\ hasIconLink \in BOOLEAN
  /\ dataTheme = Null
  /\ githubSrc = (IF hasGithubIcon THEN "/images/github-mark.svg" ELSE "none")
  /\ linkedinSrc = (IF hasLinkedInIcon THEN "/images/InBug-Black.png" ELSE "none")
  /\ iconHref = (IF hasIconLink THEN "/images/small/png/logo-small-light-t.png"
                 ELSE "none")
  /\ mediaListener = FALSE
  /\ domReady = FALSE
  /\ themeEvent = "none"
  /\ themeThrew = FALSE
  /\ themeWrite = "none"
  /\ themeCall = <<>>
  /\ manualTheme = Null
  /\ manualSaved = FALSE
  /\ manualHere = FALSE

\* the theme manager at rest: nothing stored, a light environment
ThemeIdle == ThemePage /\ themeItem = Null /\ systemDark = FALSE

\* the themes the manager writes
Themes == {Str("light"), Str("dark")}

(***************************************************************************)
(* The navigation manager.  An href is the sequence of the parts of its    *)
(* text: <<"#", id>> is "#id", <<"/", "#", id>> is "/#id", <<"/", file>>   *)
(* is "/file"; <<>> is the empty string.                                   *)
(***************************************************************************)
HomeLink == <<"#", "home">>
AboutLink == <<"#", "about-title">>
ServicesLink == <<"#", "services-title">>
NonexistentLink == <<"#", "nonexistent">>
PageHomeLink == <<"/", "#", "home">>
PrivacyLink == <<"/", "time-tracker-privacy.html">>

\* String.prototype.startsWith for a one-character prefix
startsWith(href, c) == Len(href) > 0 /\ href[1] = c

\* no element
NoElement == <<>>

\* document.querySelector(sel) on a page whose elements with an id are the
\* domain of tops: an id selector finds the element or null, a text that
\* is no selector ("/file", "/#id", "#", "") makes it throw a SyntaxError
querySelector(tops, sel) ==
  IF Len(sel) = 2 /\ sel[1] = "#"
  THEN [threw |-> FALSE,
        el |-> IF sel[2] \in DOMAIN tops THEN <<sel[2]>> ELSE NoElement]
  ELSE [threw |-> TRUE, el |-> NoElement]

\* the page as the handlers of the navigation manager see it; the record
\* of the handler's own effects starts empty
NavWorld ==
  [hasMenuToggle |-> hasMenuToggle, hasNavLinks |-> hasNavLinks,
   hasNav |-> hasNav, hasLogo |-> hasLogo,
   navOffsetHeight |-> navOffsetHeight, navHrefs |-> navHrefs,
   offsetTop |-> offsetTop, navMode |-> navMode, navHeight |-> navHeight,
   navOpen |-> navOpen, navActive |-> navActive, toggleActive |-> toggleActive,
   scrollTimers |-> scrollTimers, scrollY |-> scrollY,
   prevented |-> FALSE, req |-> <<>>, threw |-> FALSE, target |-> <<>>]

isHashNavigation_Every(hrefs) ==
  /\ hrefs # {}
  /\ \A h \in hrefs : startsWith(h, "#")

\* navLinkItems.length > 0 && some(href && href.startsWith("#"))
isHashNavigation(hrefs) ==
  /\ hrefs # {}
  /\ \E h \in hrefs : startsWith(h, "#")

\* window.scrollTo({top: top})
scrollTo(n, top) == [n EXCEPT !.req = <<top>>, !.scrollY = top]

Max(a, b) == IF a >= b THEN a ELSE b

ScrollTop_NoClamp(targetOffsetTop, height) == targetOffsetTop - height - 10

\* Math.max(0, targetElement.offsetTop - navHeight - 10)
ScrollTop(targetOffsetTop, height) == Max(0, targetOffsetTop - height - 10)

initMobileMenu_NoGuard(n) ==
  IF isHashNavigation(n.navHrefs)
  THEN [n EXCEPT !.navMode = "anchor",
                 !.navHeight = IF n.hasNav /\ n.navOffsetHeight # 0
                               THEN n.navOffsetHeight ELSE 60]
  ELSE [n EXCEPT !.navMode = "simple"]

\* the body of the script: the guard on the two elements, the choice of the
\* branch, and the constant navHeight of the anchor branch
\* (document.querySelector("nav")?.offsetHeight || 60)
initMobileMenu(n) ==
  IF ~n.hasMenuToggle \/ ~n.hasNavLinks
  THEN [n EXCEPT !.navMode = "none"]
  ELSE IF isHashNavigation(n.navHrefs)
       THEN [n EXCEPT !.navMode = "anchor",
                      !.navHeight = IF n.hasNav /\ n.navOffsetHeight # 0
                                    THEN n.navOffsetHeight ELSE 60]
       ELSE [n EXCEPT !.navMode = "simple"]

onMenuToggleClick_OpenOnly(n) ==
  CASE n.navMode = "anchor" -> [n EXCEPT !.navOpen = ~n.navOpen]
    [] n.navMode = "simple" -> [n EXCEPT !.navActive = ~n.navActive]
    [] OTHER -> n

\* the click listener of #menu-toggle, if one was added
onMenuToggleClick(n) ==
  CASE n.navMode = "anchor" ->
         [n EXCEPT !.navOpen = ~n.navOpen, !.toggleActive = ~n.toggleActive]
    [] n.navMode = "simple" -> [n EXCEPT !.navActive = ~n.navActive]
    [] OTHER -> n

\* the timer set last runs first
onScrollTimeout_NewestFirst(n) ==
  LET k == Len(n.scrollTimers)
      el == n.scrollTimers[k][1]
      m == [n EXCEPT !.scrollTimers = SubSeq(n.scrollTimers, 1, k - 1),
                     !.target = <<el>>]
  IN  scrollTo(m, ScrollTop(n.offsetTop[el], n.navHeight))

\* the callback of setTimeout: scrolls to the target of the oldest timer;
\* target: the targetElement of its closure
onScrollTimeout(n) ==
  LET el == Head(n.scrollTimers)[1]
      m == [n EXCEPT !.scrollTimers = Tail(n.scrollTimers), !.target = <<el>>]
  IN  scrollTo(m, ScrollTop(n.offsetTop[el], n.navHeight))

\* a link click clears the timers still pending before it sets its own
onNavLinkClick_CancelsPending(n, href) ==
  CASE n.navMode = "anchor" ->
         LET m == [n EXCEPT !.prevented = TRUE, !.navOpen = FALSE,
                            !.toggleActive = FALSE]
             q == querySelector(n.offsetTop, href)
         IN  IF q.threw THEN [m EXCEPT !.threw = TRUE]
             ELSE IF q.el # NoElement
                  THEN [m EXCEPT !.scrollTimers = <<q.el>>]
                  ELSE m
    [] n.navMode = "simple" -> [n EXCEPT !.navActive = FALSE]
    [] OTHER -> n

onNavLinkClick_ScrollsAtOnce(n, href) ==
  CASE n.navMode = "anchor" ->
         LET m == [n EXCEPT !.prevented = TRUE, !.navOpen = FALSE,
                            !.toggleActive = FALSE]
             q == querySelector(n.offsetTop, href)
         IN  IF q.threw THEN [m EXCEPT !.threw = TRUE]
             ELSE IF q.el # NoElement
                  THEN scrollTo(m, ScrollTop(n.offsetTop[q.el[1]], n.navHeight))
                  ELSE m
    [] n.navMode = "simple" -> [n EXCEPT !.navActive = FALSE]
    [] OTHER -> n

\* the click listener of the link with this href, if one was added
onNavLinkClick(n, href) ==
  CASE n.navMode = "anchor" ->
         LET m == [n EXCEPT !.prevented = TRUE, !.navOpen = FALSE,
                            !.toggleActive = FALSE]
             q == querySelector(n.offsetTop, href)
         IN  IF q.threw THEN [m EXCEPT !.threw = TRUE]
             ELSE IF q.el # NoElement
                  THEN [m EXCEPT !.scrollTimers = Append(n.scrollTimers, q.el)]
                  ELSE m
    [] n.navMode = "simple" -> [n EXCEPT !.navActive = FALSE]
    [] OTHER -> n

onLogoClick_ClosesMenu(n) ==
  IF n.navMode = "anchor" /\ n.hasLogo
  THEN scrollTo([n EXCEPT !.prevented = TRUE, !.navOpen = FALSE,
                          !.toggleActive = FALSE], 0)
  ELSE n

\* the click listener of ".logo a", if one was added
onLogoClick(n) ==
  IF n.navMode = "anchor" /\ n.hasLogo
  THEN scrollTo([n EXCEPT !.prevented = TRUE], 0)
  ELSE n

\* the sections of the page and their offsetTop
IndexLayout == [x \in {"home", "about-title", "services-title"} |->
                  CASE x = "home" -> 0
                    [] x = "about-title" -> 500
                    [] OTHER -> 1000]

\* the same page with the second section 50 below the top
ShortLayout == [IndexLayout EXCEPT !["about-title"] = 50]

\* the navigation state of a page before its script ran
NavServed ==
  /\ navMode = "unset"
  /\ navHeight = 0
  /\ navOpen = FALSE
  /\ navActive = FALSE
  /\ toggleActive = FALSE
  /\ scrollTimers = <<>>
  /\ scrollY = 0
  /\ navEvent = "none"
  /\ navClicked = <<>>
  /\ defaultPrevented = FALSE
  /\ scrollReq = <<>>
  /\ navThrew = FALSE
  /\ runStart = FALSE
  /\ runOdd = FALSE
  /\ lastClicked = <<>>
  /\ lastScrolled = <<>>

\* the single-page site: the markup of index.html
IndexPage ==
  /\ hasMenuToggle = TRUE
  /\ hasNavLinks = TRUE
  /\ hasNav = TRUE
  /\ hasLogo = TRUE
  /\ navOffsetHeight = 60
  /\ navHrefs = {HomeLink, AboutLink, ServicesLink}
  /\ offsetTop = IndexLayout

\* the navigation manager at rest
NavIdle == NavServed /\ IndexPage


(***************************************************************************)
(* Stored values a page load can find.                                     *)
(***************************************************************************)
Field(k, v) == <<k, v>>

\* JSON objects with every combination of version, timestamp and choices;
\* a member whose value is Undefined is absent from the text
StoredObjects ==
  { Obj(<<Field("version", v), Field("timestamp", t), Field("analytics", c[1]),
          Field("marketing", c[2]), Field("essential", Bool(TRUE))>>) :
      v \in {Undefined, COOKIE_CONSENT_VERSION, Str("0.5")},
      t \in {Undefined, Num(0), Num(1)},
      c \in {<<Undefined, Undefined>>, <<Bool(TRUE), Bool(FALSE)>>} }

StoredTexts ==
  { JSONstringify(o) : o \in StoredObjects }
  \cup { <<>>,                                    \* the empty string
         <<W("invalid"), W("json")>>,             \* not JSON
         <<L("null")>>,                           \* JSON null
         <<N(42)>>,                               \* a JSON number
         <<P("{"), S("version"), P(":"), S("1.0")>>,          \* truncated
         \* the version as a number, and members in another order
         <<P("{"), S("version"), P(":"), N(1), P(","),
           S("timestamp"), P(":"), N(1), P("}")>>,
         <<P("{"), S("marketing"), P(":"), L("true"), P(","),
           S("timestamp"), P(":"), N(1), P(","),
           S("version"), P(":"), S("1.0"), P(","),
           S("analytics"), P(":"), L("true"), P("}")>> }

StoredValues == {NoItem} \cup { Item(t) : t \in StoredTexts }

NoRet == [op |-> "none", args |-> <<>>, out |-> Return(Undefined)]

\* the page as served: dialog hidden, boxes unchecked, nothing run yet
InitPage ==
  /\ phase = "unloaded"
  /\ shown = FALSE
  /\ analyticsChecked = FALSE
  /\ marketingChecked = FALSE
  /\ focus = "body"
  /\ timerPending = FALSE
  /\ issued = <<>>
  /\ lastUpdate = <<>>
  /\ lastWrite = "none"
  /\ lastEvent = "none"
  /\ choice = <<>>
  /\ choseA = FALSE
  /\ choseM = FALSE
  /\ writer = "none"
  /\ decided = FALSE
  /\ ret = NoRet

\* the page as shipped: the dialog markup is complete and the inline script
\* of the head has defined gtag
Shipped ==
  /\ hasOverlay = TRUE
  /\ hasAnalyticsCb = TRUE
  /\ hasMarketingCb = TRUE
  /\ gtagAvailable = TRUE

\* a page on which the overlay, a checkbox (an element of the overlay) or
\* gtag may be missing
Degraded ==
  /\ hasOverlay \in BOOLEAN
  /\ hasAnalyticsCb \in BOOLEAN
  /\ hasMarketingCb \in BOOLEAN
  /\ ~hasOverlay => (~hasAnalyticsCb /\ ~hasMarketingCb)
  /\ gtagAvailable \in BOOLEAN

Init == InitPage /\ Shipped /\ ThemeIdle /\ NavIdle /\ storage \in StoredValues

\* a first visit: nothing is stored
InitFirstVisit == InitPage /\ Shipped /\ ThemeIdle /\ NavIdle /\ storage = NoItem

\* nothing stored, a text that is not JSON, a record of another version and a
\* valid record
StoredSample ==
  { NoItem,
    Item(<<W("invalid"), W("json")>>),
    Item(JSONstringify(Obj(<<Field("version", Str("0.5")), Field("timestamp", Num(1)),
                             Field("analytics", Bool(TRUE)), Field("marketing", Bool(TRUE)),
                             Field("essential", Bool(TRUE))>>))),
    Item(JSONstringify(Obj(<<Field("version", COOKIE_CONSENT_VERSION),
                             Field("timestamp", Num(1)),
                             Field("analytics", Bool(TRUE)), Field("marketing", Bool(FALSE)),
                             Field("essential", Bool(TRUE))>>))) }

InitDegraded == InitPage /\ Degraded /\ ThemeIdle /\ NavIdle /\ storage \in StoredSample

\* the state after a handler that ran event ev and left the page as w;
\* ch is the consent choice it made (<<>> if none), r the outcome of a call
Commit(w, ev, ch, r) ==
  /\ storage' = w.storage
  /\ shown' = w.shown
  /\ analyticsChecked' = w.analyticsChecked
  /\ marketingChecked' = w.marketingChecked
  /\ focus' = w.focus
  /\ timerPending' = w.timerPending
  /\ issued' = w.issued
  /\ lastUpdate' = w.lastUpdate
  /\ lastWrite' = w.lastWrite
  /\ lastEvent' = ev
  /\ choice' = ch
  /\ choseA' = (choseA \/ (ch # <<>> /\ ch[1]))
  /\ choseM' = (choseM \/ (ch # <<>> /\ ch[2]))
  /\ writer' = IF w.lastWrite = "ok" THEN ev ELSE writer
  /\ decided' = CASE ev = "load" -> Truthy(hasValidConsent(w.storage).val)
                   [] ev = "unload" -> FALSE
                   [] OTHER -> (decided \/ ch # <<>>)
  /\ ret' = r
  /\ UNCHANGED <<hasOverlay, hasAnalyticsCb, hasMarketingCb, gtagAvailable>>
  /\ UNCHANGED themeVars
  /\ UNCHANGED navVars

Times == 1..MaxClock

\* the script runs on a freshly served page
PageLoad ==
  /\ phase = "unloaded"
  /\ phase' = "ready"
  /\ Commit(initCookieConsent(World), "load", <<>>, NoRet)

\* the page is left or reloaded: the document, its timers and the consent
\* state of the tag are discarded, localStorage is kept
Unload ==
  /\ phase = "ready"
  /\ phase' = "unloaded"
  /\ Commit([World EXCEPT !.shown = FALSE, !.analyticsChecked = FALSE,
                          !.marketingChecked = FALSE, !.focus = "body",
                          !.timerPending = FALSE, !.lastUpdate = <<>>],
            "unload", <<>>, NoRet)

\* the timer set by initCookieConsent fires
TimerFire ==
  /\ phase = "ready"
  /\ timerPending
  /\ UNCHANGED phase
  /\ Commit(showCookieDialog([World EXCEPT !.timerPending = FALSE]), "timer", <<>>, NoRet)

\* The buttons of the dialog are elements of the overlay: a page without the
\* overlay has none of them, and no listener is attached.

\* the handler without its updateCheckboxes(true, true)
ClickAcceptAll_NoCheckboxUpdate ==
  /\ phase = "ready"
  /\ hasOverlay
  /\ UNCHANGED phase
  /\ \E now \in Times, quota \in BOOLEAN :
       Commit(handleConsentChoice(World, Bool(TRUE), Bool(TRUE), now, quota),
              "acceptAll", <<TRUE, TRUE>>, NoRet)

ClickAcceptAll ==
  /\ phase = "ready"
  /\ hasOverlay
  /\ UNCHANGED phase
  /\ \E now \in Times, quota \in BOOLEAN :
       Commit(handleConsentChoice(updateCheckboxes(World, Bool(TRUE), Bool(TRUE)),
                                  Bool(TRUE), Bool(TRUE), now, quota),
              "acceptAll", <<TRUE, TRUE>>, NoRet)

\* a missing checkbox counts as checked
ClickAcceptSelected_MissingCountsTrue ==
  /\ phase = "ready"
  /\ hasOverlay
  /\ UNCHANGED phase
  /\ \E now \in Times, quota \in BOOLEAN :
       LET analytics == IF hasAnalyticsCb THEN analyticsChecked ELSE TRUE
           marketing == IF hasMarketingCb THEN marketingChecked ELSE TRUE
       IN Commit(handleConsentChoice(World, Bool(analytics), Bool(marketing), now, quota),
                 "acceptSelected", <<analytics, marketing>>, NoRet)

ClickAcceptSelected ==
  /\ phase = "ready"
  /\ hasOverlay
  /\ UNCHANGED phase
  /\ \E now \in Times, quota \in BOOLEAN :
       LET analytics == IF hasAnalyticsCb THEN analyticsChecked ELSE FALSE
           marketing == IF hasMarketingCb THEN marketingChecked ELSE FALSE
       IN Commit(handleConsentChoice(World, Bool(analytics), Bool(marketing), now, quota),
                 "acceptSelected", <<analytics, marketing>>, NoRet)

ClickRejectAll ==
  /\ phase = "ready"
  /\ hasOverlay
  /\ UNCHANGED phase
  /\ \E now \in Times, quota \in BOOLEAN :
       Commit(handleConsentChoice(updateCheckboxes(World, Bool(FALSE), Bool(FALSE)),
                                  Bool(FALSE), Bool(FALSE), now, quota),
              "rejectAll", <<FALSE, FALSE>>, NoRet)

\* the close button records a refusal
ClickClose_Rejects ==
  /\ phase = "ready"
  /\ hasOverlay
  /\ UNCHANGED phase
  /\ \E now \in Times, quota \in BOOLEAN :
       Commit(handleConsentChoice(World, Bool(FALSE), Bool(FALSE), now, quota),
              "close", <<>>, NoRet)

ClickClose ==
  /\ phase = "ready"
  /\ hasOverlay
  /\ UNCHANGED phase
  /\ Commit(hideCookieDialog(World), "close", <<>>, NoRet)

ClickPreferences ==
  /\ phase = "ready"
  /\ UNCHANGED phase
  /\ Commit(showCookieDialog(World), "preferences", <<>>, NoRet)

\* a click whose target is the overlay itself, or the dialog inside it
ClickOverlay ==
  /\ phase = "ready"
  /\ hasOverlay
  /\ UNCHANGED phase
  /\ \E target \in {"overlay", "dialog"} :
       Commit(IF target = "overlay" THEN hideCookieDialog(World) ELSE World,
              IF target = "overlay" THEN "backdrop" ELSE "inside", <<>>, NoRet)

KeyDown ==
  /\ phase = "ready"
  /\ UNCHANGED phase
  /\ \E key \in {"Escape", "Enter"} :
       Commit(IF key = "Escape" /\ hasOverlay /\ shown
              THEN hideCookieDialog(World) ELSE World,
              IF key = "Escape" THEN "escape" ELSE "otherKey", <<>>, NoRet)

\* the user clicks a checkbox of the dialog
ToggleAnalytics ==
  /\ phase = "ready"
  /\ hasAnalyticsCb
  /\ UNCHANGED phase
  /\ Commit([World EXCEPT !.analyticsChecked = ~@], "toggleAnalytics", <<>>, NoRet)

ToggleMarketing ==
  /\ phase = "ready"
  /\ hasMarketingCb
  /\ UNCHANGED phase
  /\ Commit([World EXCEPT !.marketingChecked = ~@], "toggleMarketing", <<>>, NoRet)

Next ==
  \/ PageLoad
  \/ Unload
  \/ TimerFire
  \/ ClickAcceptAll
  \/ ClickAcceptSelected
  \/ ClickRejectAll
  \/ ClickClose
  \/ ClickPreferences
  \/ ClickOverlay
  \/ KeyDown
  \/ ToggleAnalytics
  \/ ToggleMarketing

Spec == Init /\ [][Next]_vars

SpecFirstVisit == InitFirstVisit /\ [][Next]_vars

\* the events a user can cause: the controls of the dialog can be clicked
\* only while the dialog is displayed
NextUser ==
  \/ PageLoad
  \/ Unload
  \/ TimerFire
  \/ ClickPreferences
  \/ KeyDown
  \/ shown /\ ClickAcceptAll
  \/ shown /\ ClickAcceptSelected
  \/ shown /\ ClickRejectAll
  \/ shown /\ ClickClose
  \/ shown /\ ClickOverlay
  \/ shown /\ ToggleAnalytics
  \/ shown /\ ToggleMarketing

SpecUser == Init /\ [][NextUser]_vars

\* the events of a browser whose localStorage accepts every write
NextSaved ==
  \/ PageLoad
  \/ Unload
  \/ TimerFire
  \/ ClickAcceptAll /\ lastWrite' = "ok"
  \/ ClickAcceptSelected /\ lastWrite' = "ok"
  \/ ClickRejectAll /\ lastWrite' = "ok"
  \/ ClickClose
  \/ ClickPreferences
  \/ ClickOverlay
  \/ KeyDown
  \/ ToggleAnalytics
  \/ ToggleMarketing

SpecSaved == Init /\ [][NextSaved]_vars

(***************************************************************************)
(* Calls of the functions initCookieConsent returns.                       *)
(***************************************************************************)
CallHasValidConsent ==
  /\ phase = "ready"
  /\ UNCHANGED phase
  /\ Commit(World, "call", <<>>,
            [op |-> "hasValidConsent", args |-> <<>>, out |-> hasValidConsent(storage)])

CallGetConsentPreferences ==
  /\ phase = "ready"
  /\ UNCHANGED phase
  /\ Commit(World, "call", <<>>,
            [op |-> "getConsentPreferences", args |-> <<>>,
             out |-> getConsentPreferences(storage)])

CallSaveConsentPreferences ==
  /\ phase = "ready"
  /\ UNCHANGED phase
  /\ \E a \in BOOLEAN, m \in BOOLEAN, now \in Times, quota \in BOOLEAN :
       LET saved == saveConsentPreferences(World, Bool(a), Bool(m), now, quota) IN
         Commit(saved.w, "call", <<>>,
                [op |-> "saveConsentPreferences", args |-> <<a, m>>, out |-> saved.out])

CallHandleConsentChoice ==
  /\ phase = "ready"
  /\ UNCHANGED phase
  /\ \E a \in BOOLEAN, m \in BOOLEAN, now \in Times, quota \in BOOLEAN :
       LET w == handleConsentChoice(World, Bool(a), Bool(m), now, quota) IN
         Commit(w, "call", <<>>,
                [op |-> "handleConsentChoice", args |-> <<a, m>>,
                 out |-> IF w.threw THEN Throw ELSE Return(Undefined)])

CallShowCookieDialog ==
  /\ phase = "ready"
  /\ UNCHANGED phase
  /\ Commit(showCookieDialog(World), "call", <<>>,
            [op |-> "showCookieDialog", args |-> <<>>, out |-> Return(Undefined)])

CallHideCookieDialog ==
  /\ phase = "ready"
  /\ UNCHANGED phase
  /\ Commit(hideCookieDialog(World), "call", <<>>,
            [op |-> "hideCookieDialog", args |-> <<>>, out |-> Return(Undefined)])

NextApi ==
  \/ PageLoad
  \/ Unload
  \/ CallHasValidConsent
  \/ CallGetConsentPreferences
  \/ CallSaveConsentPreferences
  \/ CallHandleConsentChoice
  \/ CallShowCookieDialog
  \/ CallHideCookieDialog

SpecApi == Init /\ [][NextApi]_vars

\* the event handlers on a page where elements or gtag may be missing
SpecDegraded == InitDegraded /\ [][Next]_vars


(***************************************************************************)
(* The events of the theme manager.  The consent manager is at rest.       *)
(***************************************************************************)
\* any theme stored by an earlier visit, any colour scheme of the environment
InitTheme ==
  /\ InitPage /\ Shipped /\ storage = NoItem
  /\ NavIdle
  /\ ThemePage
  /\ themeItem \in {Null} \cup Themes
  /\ systemDark \in BOOLEAN

\* a theme handler that calls localStorage.clear(): the consent record goes
ThemeCommit_ClearsStorage(t, ev, call) ==
  /\ dataTheme' = t.dataTheme
  /\ themeItem' = t.themeItem
  /\ githubSrc' = t.githubSrc
  /\ linkedinSrc' = t.linkedinSrc
  /\ iconHref' = t.iconHref
  /\ mediaListener' = t.mediaListener
  /\ themeEvent' = ev
  /\ themeThrew' = t.threw
  /\ themeWrite' = t.themeWrite
  /\ themeCall' = call
  /\ manualTheme' = IF ev = "toggle" THEN t.dataTheme ELSE manualTheme
  /\ manualSaved' = IF ev = "toggle" THEN t.themeWrite = "ok" ELSE manualSaved
  /\ manualHere' = CASE ev = "toggle" -> TRUE
                      [] ev = "unload" -> FALSE
                      [] OTHER -> manualHere
  /\ UNCHANGED <<hasGithubIcon, hasLinkedInIcon, hasIconLink>>
  /\ storage' = NoItem
  /\ UNCHANGED <<phase, hasOverlay, hasAnalyticsCb, hasMarketingCb, gtagAvailable,
                 shown, analyticsChecked, marketingChecked, focus, timerPending, issued,
                 lastUpdate, lastWrite, lastEvent, choice, choseA,
                 choseM, writer, decided, ret>>
  /\ UNCHANGED navVars

\* the state after a theme handler that ran event ev and left the page as t;
\* call: the arguments of a direct call of setTheme
ThemeCommit(t, ev, call) ==
  /\ dataTheme' = t.dataTheme
  /\ themeItem' = t.themeItem
  /\ githubSrc' = t.githubSrc
  /\ linkedinSrc' = t.linkedinSrc
  /\ iconHref' = t.iconHref
  /\ mediaListener' = t.mediaListener
  /\ themeEvent' = ev
  /\ themeThrew' = t.threw
  /\ themeWrite' = t.themeWrite
  /\ themeCall' = call
  /\ manualTheme' = IF ev = "toggle" THEN t.dataTheme ELSE manualTheme
  /\ manualSaved' = IF ev = "toggle" THEN t.themeWrite = "ok" ELSE manualSaved
  /\ manualHere' = CASE ev = "toggle" -> TRUE
                      [] ev = "unload" -> FALSE
                      [] OTHER -> manualHere
  /\ UNCHANGED <<hasGithubIcon, hasLinkedInIcon, hasIconLink>>
  /\ UNCHANGED consentVars
  /\ UNCHANGED navVars

DOMContentLoaded ==
  /\ ~domReady
  /\ domReady' = TRUE
  /\ UNCHANGED systemDark
  /\ ThemeCommit(onDOMContentLoaded(ThemeWorld), "DOMContentLoaded", <<>>)

\* the page is left or reloaded: the document and its listeners are
\* discarded, localStorage is kept
ThemeUnload ==
  /\ domReady
  /\ domReady' = FALSE
  /\ UNCHANGED systemDark
  /\ ThemeCommit(ServedTheme(ThemeWorld), "unload", <<>>)

\* onclick="toggleTheme()" of #theme-toggle; the script has run, so the
\* function exists before DOMContentLoaded is dispatched
ClickThemeToggle ==
  /\ UNCHANGED <<domReady, systemDark>>
  /\ \E quota \in BOOLEAN :
       ThemeCommit(toggleTheme(ThemeWorld, quota), "toggle", <<>>)

\* the colour scheme of the environment changes; the listener, if this page
\* registered it, runs with the new value
SystemChange ==
  /\ systemDark' = ~systemDark
  /\ UNCHANGED domReady
  /\ ThemeCommit(IF mediaListener THEN onSystemChange(ThemeWorld, ~systemDark)
                 ELSE ThemeWorld,
                 "change", <<>>)

NextTheme ==
  \/ DOMContentLoaded
  \/ ThemeUnload
  \/ ClickThemeToggle
  \/ SystemChange

SpecTheme == InitTheme /\ [][NextTheme]_vars

\* a direct call of setTheme
CallSetTheme ==
  /\ UNCHANGED <<domReady, systemDark>>
  /\ \E theme \in Themes, manual \in BOOLEAN, quota \in BOOLEAN :
       ThemeCommit(setTheme(ThemeWorld, theme, manual, quota), "call",
                   <<theme, manual>>)

NextThemeApi ==
  \/ DOMContentLoaded
  \/ ThemeUnload
  \/ ClickThemeToggle
  \/ SystemChange
  \/ CallSetTheme

SpecThemeApi == InitTheme /\ [][NextThemeApi]_vars

\* the theme manager on pages that lack some of the three elements
InitThemeDegraded ==
  /\ InitPage /\ Shipped /\ storage = NoItem
  /\ NavIdle
  /\ ThemePageDegraded
  /\ themeItem \in {Null} \cup Themes
  /\ systemDark \in BOOLEAN

SpecThemeDegraded == InitThemeDegraded /\ [][NextThemeApi]_vars

(***************************************************************************)
(* The events of the navigation manager.  The other managers are at rest.  *)
(***************************************************************************)
\* the sets of links a page can have in #nav-links: none, the anchors of
\* the single-page site, an anchor of no element, the links of the privacy
\* page, anchors and page links together
NavLinkSets ==
  { {},
    {HomeLink, AboutLink, ServicesLink},
    {ServicesLink, NonexistentLink},
    {PageHomeLink, PrivacyLink},
    {AboutLink, PrivacyLink} }

\* the heights a navigation bar reports
NavHeights == {0, 60, 80}

Layouts == {IndexLayout, ShortLayout}

\* pages with both menu elements, with or without a nav element and a logo link
InitNav ==
  /\ InitPage /\ Shipped /\ storage = NoItem
  /\ ThemeIdle
  /\ NavServed
  /\ hasMenuToggle = TRUE
  /\ hasNavLinks = TRUE
  /\ hasNav \in BOOLEAN
  /\ hasLogo \in BOOLEAN
  /\ navOffsetHeight \in (IF hasNav THEN NavHeights ELSE {0})
  /\ navHrefs \in NavLinkSets
  /\ offsetTop \in Layouts

\* pages on which either menu element may be missing; the links are in #nav-links
InitNavDegraded ==
  /\ InitPage /\ Shipped /\ storage = NoItem
  /\ ThemeIdle
  /\ NavServed
  /\ hasMenuToggle \in BOOLEAN
  /\ hasNavLinks \in BOOLEAN
  /\ hasNav = TRUE
  /\ hasLogo \in BOOLEAN
  /\ navOffsetHeight = 60
  /\ navHrefs \in (IF hasNavLinks THEN NavLinkSets ELSE {{}})
  /\ offsetTop = IndexLayout

\* the state after a navigation handler that ran event ev on the link href
\* (<<>> if the event is not a link click) and left the page as n
NavCommit(n, ev, href) ==
  /\ navMode' = n.navMode
  /\ navHeight' = n.navHeight
  /\ navOpen' = n.navOpen
  /\ navActive' = n.navActive
  /\ toggleActive' = n.toggleActive
  /\ scrollTimers' = n.scrollTimers
  /\ scrollY' = n.scrollY
  /\ navEvent' = ev
  /\ navClicked' = href
  /\ defaultPrevented' = n.prevented
  /\ scrollReq' = n.req
  /\ navThrew' = n.threw
  /\ runStart' = CASE ev = "toggle" /\ navEvent = "toggle" -> runStart
                    [] ev = "toggle" -> navOpen
                    [] OTHER -> FALSE
  /\ runOdd' = CASE ev = "toggle" /\ navEvent = "toggle" -> ~runOdd
                  [] ev = "toggle" -> TRUE
                  [] OTHER -> FALSE
  /\ lastClicked' = IF /\ ev = "link"
                       /\ navMode = "anchor"
                       /\ Len(href) = 2
                       /\ href[1] = "#"
                       /\ href[2] \in DOMAIN offsetTop
                    THEN <<href[2]>>
                    ELSE lastClicked
  /\ lastScrolled' = IF n.target # <<>> THEN n.target ELSE lastScrolled
  /\ UNCHANGED <<hasMenuToggle, hasNavLinks, hasNav, hasLogo, navOffsetHeight,
                 navHrefs, offsetTop>>
  /\ UNCHANGED consentVars
  /\ UNCHANGED themeVars

\* the script runs, once per page
RunNavigationScript ==
  /\ navMode = "unset"
  /\ NavCommit(initMobileMenu(NavWorld), "init", <<>>)

ClickMenuToggle ==
  /\ navMode # "unset"
  /\ hasMenuToggle
  /\ NavCommit(onMenuToggleClick(NavWorld), "toggle", <<>>)

ClickNavLink ==
  /\ navMode # "unset"
  /\ hasNavLinks
  /\ Len(scrollTimers) < MaxTimers
  /\ \E href \in navHrefs : NavCommit(onNavLinkClick(NavWorld, href), "link", href)

ClickLogo ==
  /\ navMode # "unset"
  /\ hasLogo
  /\ NavCommit(onLogoClick(NavWorld), "logo", <<>>)

\* the oldest pending timer fires
ScrollTimerFires ==
  /\ scrollTimers # <<>>
  /\ NavCommit(onScrollTimeout(NavWorld), "timer", <<>>)

\* the window is resized or the content reflows: the navigation bar and the
\* sections report other measures; no handler of the manager runs
Reflow ==
  /\ navMode # "unset"
  /\ navOffsetHeight' \in (IF hasNav THEN NavHeights ELSE {0})
  /\ offsetTop' \in Layouts
  /\ <<navOffsetHeight', offsetTop'>> # <<navOffsetHeight, offsetTop>>
  /\ navEvent' = "resize"
  /\ navClicked' = <<>>
  /\ defaultPrevented' = FALSE
  /\ scrollReq' = <<>>
  /\ navThrew' = FALSE
  /\ runStart' = FALSE
  /\ runOdd' = FALSE
  /\ UNCHANGED <<hasMenuToggle, hasNavLinks, hasNav, hasLogo, navHrefs, navMode,
                 navHeight, navOpen, navActive, toggleActive, scrollTimers, scrollY,
                 lastClicked, lastScrolled>>
  /\ UNCHANGED consentVars
  /\ UNCHANGED themeVars

NextNav ==
  \/ RunNavigationScript
  \/ ClickMenuToggle
  \/ ClickNavLink
  \/ ClickLogo
  \/ ScrollTimerFires

SpecNav == InitNav /\ [][NextNav]_vars

NextNavScroll ==
  \/ NextNav
  \/ Reflow

SpecNavScroll == InitNav /\ [][NextNavScroll]_vars

SpecNavDegraded == InitNavDegraded /\ [][NextNav]_vars

\* a timer that is set fires: the callback runs once its delay has passed
SpecNavFair == InitNav /\ [][NextNav]_vars /\ WF_vars(ScrollTimerFires)

(***************************************************************************)
(* The three managers on one page: the single-page site on a first visit   *)
(* in a light environment.  The scripts run in any order and the events of *)
(* the three managers interleave; the page is not left, the user accepts   *)
(* all or leaves the dialog, and clicks a link when no scroll is pending.  *)
(***************************************************************************)
InitSite ==
  /\ InitPage /\ Shipped /\ storage = NoItem
  /\ ThemeIdle
  /\ NavIdle

NextSite ==
  \/ PageLoad
  \/ TimerFire
  \/ ClickPreferences
  \/ shown /\ ClickAcceptAll
  \/ DOMContentLoaded
  \/ ClickThemeToggle
  \/ SystemChange
  \/ RunNavigationScript
  \/ ClickMenuToggle
  \/ scrollTimers = <<>> /\ ClickNavLink
  \/ ScrollTimerFires

SpecSite == InitSite /\ [][NextSite]_vars


(***************************************************************************)
(* Properties.                                                             *)
(***************************************************************************)
Updates == { issued[i] : i \in 1..Len(issued) }

\* the payload grants an ad flag
Granting(p) ==
  "granted" \in {p.ad_storage, p.ad_user_data, p.ad_personalization}

\* C1: no tracking without consent.  From a first visit, every update any
\* step issues grants analytics_storage only if the user has made a consent
\* choice with analytics = true, on this page or an earlier one, and grants
\* an ad flag only if the user has made a choice with marketing = true.  In
\* particular no update grants anything before the first choice.
C1_NoTrackingWithoutConsent ==
  \A p \in Updates :
    /\ p.analytics_storage = "granted" => choseA
    /\ Granting(p) => choseM

\* a page load re-issues the analytics grant of an earlier Accept Selected
\* that had only the analytics box checked
C1_Witness ==
  /\ lastEvent = "load"
  /\ issued # <<>>
  /\ issued[1].analytics_storage = "granted"
  /\ ~Granting(issued[1])
  /\ choseA
  /\ ~choseM


\* C2: once consent is decided on this page (a valid record at load, or a
\* choice made here) and the dialog is hidden, a step shows the dialog only
\* if it is a click on the cookie-preferences control.
C2_ReshownOnlyByPreferences ==
  [][(decided /\ ~shown /\ shown') => lastEvent' = "preferences"]_vars

\* C3: a page load leaves the dialog hidden and schedules the delayed show
\* exactly when hasValidConsent() is false; only a page load schedules it, so
\* with a valid record the dialog stays hidden after load; the timer's firing
\* shows the dialog, and before that nothing but a click on the
\* cookie-preferences control does.
C3_DelayedShow ==
  /\ [](lastEvent = "load" =>
          /\ ~shown
          /\ timerPending <=> ~Truthy(hasValidConsent(storage).val))
  /\ [](lastEvent = "timer" => shown)
  /\ [][(~timerPending /\ timerPending') => lastEvent' = "load"]_vars
  /\ [][(~shown /\ shown') => lastEvent' \in {"timer", "preferences"}]_vars

\* the timer of a first visit has fired and shown the dialog
C3_Witness ==
  /\ lastEvent = "timer"
  /\ shown
  /\ storage = NoItem
  /\ ~timerPending


\* what the stored value is, told without the functions under test
StoredParses == storage.present /\ ~JSONparse(storage.text).threw

StoredRecord == IF StoredParses THEN JSONparse(storage.text).val ELSE Undefined

StoredField(k) ==
  IF GetProp(StoredRecord, k).threw THEN Undefined ELSE GetProp(StoredRecord, k).val

StoredVersionMatches == StoredParses /\ StoredField("version") = COOKIE_CONSENT_VERSION

\* C4 as stated: hasValidConsent() never throws and is true iff the stored
\* value parses and its version equals the current schema version.
C4_ValidIffParsesAndVersion ==
  ret.op = "hasValidConsent" =>
    /\ ~ret.out.threw
    /\ ret.out.val = Bool(TRUE) <=> StoredVersionMatches

\* C4 amended: hasValidConsent() never throws, returns a boolean, and is true
\* iff the stored value parses, its version equals the current schema version
\* and its timestamp is truthy (present and not 0, null, false or "").
C4_ValidIffVersionAndTimestamp ==
  ret.op = "hasValidConsent" =>
    /\ ~ret.out.threw
    /\ ret.out.val \in {Bool(TRUE), Bool(FALSE)}
    /\ ret.out.val = Bool(TRUE) <=>
         (StoredVersionMatches /\ Truthy(StoredField("timestamp")))

\* a record of the current version without a timestamp is not valid
C4_Witness ==
  /\ ret.op = "hasValidConsent"
  /\ StoredVersionMatches
  /\ StoredField("timestamp") = Undefined
  /\ ret.out = Return(Bool(FALSE))

\* C5: getConsentPreferences() never throws; it returns null when the key is
\* absent, the text is not JSON or the version differs, and the parsed
\* record otherwise.  A stored record of another version makes
\* hasValidConsent() false and getConsentPreferences() null.  Neither the two
\* reads nor a page load change the stored value.
C5_GetConsentPreferences ==
  /\ [](ret.op = "getConsentPreferences" =>
          /\ ~ret.out.threw
          /\ ret.out.val = IF StoredVersionMatches THEN StoredRecord ELSE Null)
  /\ []((StoredParses /\ ~StoredVersionMatches) =>
          /\ hasValidConsent(storage) = Return(Bool(FALSE))
          /\ getConsentPreferences(storage) = Return(Null))
  /\ [][(ret'.op \in {"hasValidConsent", "getConsentPreferences"}
         \/ lastEvent' = "load") => storage' = storage]_vars

\* a record of version 0.5 that grants analytics is read as null
C5_Witness ==
  /\ ret.op = "getConsentPreferences"
  /\ StoredParses
  /\ StoredField("version") = Str("0.5")
  /\ StoredField("analytics") = Bool(TRUE)
  /\ ret.out = Return(Null)

\* C6: after saveConsentPreferences(a, m) whose write succeeded,
\* getConsentPreferences() yields a record with analytics = a, marketing = m,
\* essential = true and the current version, and hasValidConsent() is true.
C6_RoundTrip ==
  (ret.op = "saveConsentPreferences" /\ lastWrite = "ok") =>
    LET got == getConsentPreferences(storage) IN
      /\ ~got.threw
      /\ TagOf(got.val) = "object"
      /\ GetProp(got.val, "analytics").val = Bool(ret.args[1])
      /\ GetProp(got.val, "marketing").val = Bool(ret.args[2])
      /\ GetProp(got.val, "essential").val = Bool(TRUE)
      /\ GetProp(got.val, "version").val = COOKIE_CONSENT_VERSION
      /\ hasValidConsent(storage) = Return(Bool(TRUE))

\* saveConsentPreferences(true, false) has replaced a stored record
C6_Witness ==
  /\ ret.op = "saveConsentPreferences"
  /\ ret.args = <<TRUE, FALSE>>
  /\ lastWrite = "ok"
  /\ writer = "call"


AllGranted ==
  [analytics_storage |-> "granted", ad_storage |-> "granted",
   ad_user_data |-> "granted", ad_personalization |-> "granted"]

AllDenied ==
  [analytics_storage |-> "denied", ad_storage |-> "denied",
   ad_user_data |-> "denied", ad_personalization |-> "denied"]

\* the payload the claims expect for the booleans a and m
Expected(a, m) ==
  [analytics_storage |-> IF a THEN "granted" ELSE "denied",
   ad_storage |-> IF m THEN "granted" ELSE "denied",
   ad_user_data |-> IF m THEN "granted" ELSE "denied",
   ad_personalization |-> IF m THEN "granted" ELSE "denied"]

\* C7: when setItem throws, saveConsentPreferences(a, m) does not throw and
\* returns a record of the current version with analytics a, marketing m and
\* essential true; handleConsentChoice(a, m) does not throw either, issues the
\* update for (a, m) and leaves the dialog hidden; the step leaves the stored
\* value as it was.
C7_WriteFailure ==
  /\ []((ret.op = "saveConsentPreferences" /\ lastWrite = "failed") =>
          /\ ~ret.out.threw
          /\ TagOf(ret.out.val) = "object"
          /\ GetProp(ret.out.val, "version").val = COOKIE_CONSENT_VERSION
          /\ GetProp(ret.out.val, "analytics").val = Bool(ret.args[1])
          /\ GetProp(ret.out.val, "marketing").val = Bool(ret.args[2])
          /\ GetProp(ret.out.val, "essential").val = Bool(TRUE))
  /\ []((ret.op = "handleConsentChoice" /\ lastWrite = "failed") =>
          /\ ~ret.out.threw
          /\ issued = <<Expected(ret.args[1], ret.args[2])>>
          /\ ~shown)
  /\ [][lastWrite' = "failed" => storage' = storage]_vars

\* handleConsentChoice(true, false) on a shown dialog over a stored record,
\* with setItem throwing
C7_Witness ==
  /\ ret.op = "handleConsentChoice"
  /\ ret.args = <<TRUE, FALSE>>
  /\ lastWrite = "failed"
  /\ storage.present
  /\ focus = "cookie-consent-close"
  /\ ~shown

\* C8: every update issued has exactly the four keys, each granted or denied,
\* with the three ad keys equal; the update of a consent choice (a, m) has
\* analytics_storage granted iff a and the ad keys granted iff m; the update
\* of a stored record follows the record's analytics and marketing the same way.
C8_PayloadShape ==
  /\ \A p \in Updates :
       /\ DOMAIN p = {"analytics_storage", "ad_storage", "ad_user_data",
                      "ad_personalization"}
       /\ \A k \in DOMAIN p : p[k] \in {"granted", "denied"}
       /\ p.ad_storage = p.ad_user_data
       /\ p.ad_user_data = p.ad_personalization
  /\ choice # <<>> => issued = <<Expected(choice[1], choice[2])>>
  /\ (lastEvent \in {"load", "timer", "preferences"} /\ issued # <<>>) =>
       issued = <<Expected(Truthy(StoredField("analytics")),
                           Truthy(StoredField("marketing")))>>

\* Accept Selected with only the marketing box checked
C8_Witness ==
  /\ lastEvent = "acceptSelected"
  /\ choice = <<FALSE, TRUE>>
  /\ issued = <<Expected(FALSE, TRUE)>>

\* the stored value parses to a record with these choices, essential true
Persisted(a, m) ==
  /\ StoredVersionMatches
  /\ StoredField("analytics") = Bool(a)
  /\ StoredField("marketing") = Bool(m)
  /\ StoredField("essential") = Bool(TRUE)

C10_RejectAllThenReload ==
  (lastEvent = "load" /\ writer = "rejectAll") =>
    /\ ~timerPending
    /\ ~shown
    /\ issued = <<AllDenied>>
    /\ ~analyticsChecked
    /\ ~marketingChecked

\* the page was loaded again after a Reject All
C10_Witness ==
  /\ lastEvent = "load"
  /\ writer = "rejectAll"
  /\ Persisted(FALSE, FALSE)


\* what Accept Selected is to read: the state of each checkbox, false for a
\* checkbox that is not in the document
HeldAnalytics == hasAnalyticsCb /\ analyticsChecked

HeldMarketing == hasMarketingCb /\ marketingChecked

\* C11 as stated: after Accept Selected the record stored and the update
\* issued carry exactly the values the two checkboxes held at the click (false
\* for a missing checkbox), the dialog is hidden, and the click did not alter
\* the checkboxes.
C11_AcceptSelectedPersists ==
  /\ [](lastEvent = "acceptSelected" =>
          /\ Persisted(HeldAnalytics, HeldMarketing)
          /\ issued = <<Expected(HeldAnalytics, HeldMarketing)>>
          /\ ~shown)
  /\ [][lastEvent' = "acceptSelected" =>
          /\ analyticsChecked' = analyticsChecked
          /\ marketingChecked' = marketingChecked]_vars

\* C11 amended: Accept Selected does not alter the checkboxes, chooses exactly
\* the values they hold (false for a missing checkbox) and hides the dialog;
\* the record with these values is stored if setItem did not throw (the stored
\* value is left as it was otherwise), and the update with these values is
\* issued if gtag is callable (none otherwise).
C11_AcceptSelected ==
  /\ [](lastEvent = "acceptSelected" =>
          /\ choice = <<HeldAnalytics, HeldMarketing>>
          /\ lastWrite \in {"ok", "failed"}
          /\ lastWrite = "ok" => Persisted(HeldAnalytics, HeldMarketing)
          /\ issued = IF gtagAvailable
                      THEN <<Expected(HeldAnalytics, HeldMarketing)>>
                      ELSE <<>>
          /\ ~shown)
  /\ [][lastEvent' = "acceptSelected" =>
          /\ analyticsChecked' = analyticsChecked
          /\ marketingChecked' = marketingChecked
          /\ lastWrite' = "failed" => storage' = storage]_vars

\* Accept Selected on a dialog without its marketing checkbox, the analytics
\* box checked
C11_Witness ==
  /\ lastEvent = "acceptSelected"
  /\ hasAnalyticsCb
  /\ ~hasMarketingCb
  /\ analyticsChecked
  /\ gtagAvailable
  /\ lastWrite = "ok"
  /\ Persisted(TRUE, FALSE)
  /\ issued = <<Expected(TRUE, FALSE)>>


Dismissals == {"close", "backdrop", "escape"}

\* C12: the close button, a click on the overlay itself and the Escape key
\* leave the dialog hidden, write no record, issue no update and make no
\* choice; they and a click inside the dialog leave the stored value, the
\* consent state of the tag, the checkboxes and the pending timer as they
\* were, and a click inside the dialog leaves the dialog as it was; leaving
\* the page keeps the stored value, and a page load that finds no valid
\* record schedules the dialog.
C12_Dismissal ==
  /\ [](lastEvent \in Dismissals =>
          /\ ~shown
          /\ issued = <<>>
          /\ lastWrite = "none"
          /\ choice = <<>>)
  /\ [][lastEvent' \in Dismissals \cup {"inside"} =>
          /\ storage' = storage
          /\ lastUpdate' = lastUpdate
          /\ analyticsChecked' = analyticsChecked
          /\ marketingChecked' = marketingChecked
          /\ timerPending' = timerPending
          /\ decided' = decided]_vars
  /\ [][lastEvent' = "inside" => shown' = shown]_vars
  /\ [][lastEvent' = "unload" => storage' = storage]_vars
  /\ []((lastEvent = "load" /\ hasValidConsent(storage) # Return(Bool(TRUE))) =>
          timerPending)

\* the dialog of a first visit, the analytics box checked but not saved, was
\* dismissed by a click on the overlay
C12_Witness ==
  /\ lastEvent = "backdrop"
  /\ focus = "cookie-consent-close"
  /\ ~shown
  /\ analyticsChecked
  /\ storage = NoItem
  /\ ~decided

\* C13: after the timer or the cookie-preferences control has shown the
\* dialog, each checkbox is checked iff a record of the current version is
\* stored and its analytics (marketing) value is truthy; both are unchecked
\* when no such record is stored.
C13_ShowResyncs ==
  lastEvent \in {"timer", "preferences"} =>
    /\ shown
    /\ focus = "cookie-consent-close"
    /\ analyticsChecked = (StoredVersionMatches /\ Truthy(StoredField("analytics")))
    /\ marketingChecked = (StoredVersionMatches /\ Truthy(StoredField("marketing")))

\* the cookie-preferences control re-opens the dialog over the record of an
\* Accept Selected that had only the marketing box checked
C13_Witness ==
  /\ lastEvent = "preferences"
  /\ writer = "acceptSelected"
  /\ Persisted(FALSE, TRUE)
  /\ shown
  /\ ~analyticsChecked
  /\ marketingChecked

\* C14: hideCookieDialog() leaves the dialog hidden and showCookieDialog()
\* leaves it shown, whatever it was; two or three consecutive calls leave the
\* same shown state as one; a call of hideCookieDialog() on a hidden dialog
\* leaves it hidden and a call of showCookieDialog() on a shown dialog leaves
\* it shown.
C14_Idempotent ==
  /\ [](LET h1 == hideCookieDialog(World)
            h2 == hideCookieDialog(h1)
            h3 == hideCookieDialog(h2)
            s1 == showCookieDialog(World)
            s2 == showCookieDialog(s1)
            s3 == showCookieDialog(s2)
        IN /\ ~h1.shown /\ h2.shown = h1.shown /\ h3.shown = h1.shown
           /\ s1.shown /\ s2.shown = s1.shown /\ s3.shown = s1.shown)
  /\ [][(ret'.op = "hideCookieDialog" /\ ~shown) => ~shown']_vars
  /\ [][(ret'.op = "showCookieDialog" /\ shown) => shown']_vars
  /\ [](ret.op = "hideCookieDialog" => ~shown)
  /\ [](ret.op = "showCookieDialog" => shown)

\* hideCookieDialog() was called on a page whose dialog has never been shown
C14_Witness ==
  /\ ret.op = "hideCookieDialog"
  /\ focus = "body"
  /\ ~shown

\* C15 as stated: when gtag is not callable, updateGoogleConsent changes
\* nothing and does not throw, no update is issued, and a consent choice
\* stores its record and leaves the dialog hidden.
C15_GtagUnavailablePersists ==
  ~gtagAvailable =>
    /\ \A a, m \in BOOLEAN : updateGoogleConsent(World, Bool(a), Bool(m)) = World
    /\ issued = <<>>
    /\ choice # <<>> => (Persisted(choice[1], choice[2]) /\ ~shown)

\* C15 amended: when gtag is not callable, updateGoogleConsent changes nothing
\* and does not throw, no update is issued, and a consent choice leaves the
\* dialog hidden and stores its record if setItem did not throw.
C15_GtagUnavailable ==
  ~gtagAvailable =>
    /\ \A a, m \in BOOLEAN : updateGoogleConsent(World, Bool(a), Bool(m)) = World
    /\ issued = <<>>
    /\ lastUpdate = <<>>
    /\ choice # <<>> =>
         /\ lastWrite \in {"ok", "failed"}
         /\ lastWrite = "ok" => Persisted(choice[1], choice[2])
         /\ ~shown

\* Accept All on a shown dialog of a page without gtag
C15_Witness ==
  /\ ~gtagAvailable
  /\ hasOverlay
  /\ lastEvent = "acceptAll"
  /\ focus = "cookie-consent-close"
  /\ lastWrite = "ok"
  /\ Persisted(TRUE, TRUE)
  /\ ~shown


\* C16: after setTheme(v, manual), for v light or dark and manual true or
\* false, the data-theme attribute of the root element is v, also when the
\* setItem of the manual path threw.
C16_SetThemeSetsAttribute ==
  /\ themeEvent = "call" => dataTheme = themeCall[1]
  /\ \A v \in Themes, manual \in BOOLEAN, quota \in BOOLEAN :
       setTheme(ThemeWorld, v, manual, quota).dataTheme = v

\* setTheme("light", true) on a dark page, its setItem throwing
C16_Witness ==
  /\ themeEvent = "call"
  /\ themeCall = <<Str("light"), TRUE>>
  /\ themeWrite = "failed"
  /\ githubSrc = "/images/github-mark.svg"
  /\ iconHref = "/images/small/png/logo-small-light-t.png?v=dark"
  /\ dataTheme = Str("light")

\* the root attribute after two consecutive calls of toggleTheme()
ToggledTwice(q1, q2) == toggleTheme(toggleTheme(ThemeWorld, q1), q2).dataTheme

\* C17 as stated: from every state of the root attribute, unset included,
\* two consecutive calls of toggleTheme() leave the attribute as it was.
C17_ToggleInvolution ==
  \A q1, q2 \in BOOLEAN : ToggledTwice(q1, q2) = dataTheme

\* C17 amended: two consecutive calls of toggleTheme() leave a root attribute
\* that was light or dark as it was; from an unset attribute they leave it
\* light, not unset.
C17_ToggleInvolutionWhenSet ==
  \A q1, q2 \in BOOLEAN :
    /\ dataTheme \in Themes => ToggledTwice(q1, q2) = dataTheme
    /\ dataTheme = Null => ToggledTwice(q1, q2) = Str("light")

\* toggleTheme() has run twice on a page that was served without the
\* attribute and has not been initialized: only the toggle has set it
C17_Witness ==
  /\ ~domReady
  /\ themeEvent = "toggle"
  /\ dataTheme = Str("light")
  /\ manualTheme = Str("light")
  /\ manualSaved

\* C18: a call of toggleTheme() does not throw; it sets the root attribute to
\* light if the attribute was exactly dark and to dark otherwise, unset
\* included; it takes the manual path of setTheme: the favicon is left alone
\* and the theme is written to storage.
C18_ToggleTheme ==
  /\ [](themeEvent = "toggle" => ~themeThrew)
  /\ [][themeEvent' = "toggle" =>
          /\ dataTheme' = IF dataTheme = Str("dark") THEN Str("light") ELSE Str("dark")
          /\ iconHref' = iconHref
          /\ themeWrite' # "none"]_vars

\* C19: the DOMContentLoaded handler sets the root attribute to the stored
\* theme if one is stored, else to dark if the environment prefers dark, else
\* to light; it takes the automatic path of setTheme: the favicon follows the
\* theme, setItem is not called and the stored theme is left as it was.
C19_InitialTheme ==
  /\ [](themeEvent = "DOMContentLoaded" =>
          /\ dataTheme = IF themeItem # Null THEN themeItem
                         ELSE IF systemDark THEN Str("dark") ELSE Str("light")
          /\ iconHref = IF dataTheme = Str("dark")
                        THEN "/images/small/png/logo-small-light-t.png?v=dark"
                        ELSE "/images/small/png/logo-small-dark-t.png?v=light"
          /\ themeWrite = "none"
          /\ ~themeThrew)
  /\ [][themeEvent' = "DOMContentLoaded" => themeItem' = themeItem]_vars

\* a page is initialized light from storage in a dark environment
C19_Witness ==
  /\ themeEvent = "DOMContentLoaded"
  /\ themeItem = Str("light")
  /\ systemDark
  /\ dataTheme = Str("light")
  /\ ~mediaListener

GithubVariant(theme) ==
  IF theme = Str("dark") THEN "/images/github-mark-white.svg"
  ELSE "/images/github-mark.svg"

LinkedInVariant(theme) ==
  IF theme = Str("dark") THEN "/images/InBug-White.png" ELSE "/images/InBug-Black.png"

FaviconVariant(theme) ==
  IF theme = Str("dark") THEN "/images/small/png/logo-small-light-t.png?v=dark"
  ELSE "/images/small/png/logo-small-dark-t.png?v=light"

\* the theme of the environment's colour scheme
SystemTheme == IF systemDark THEN Str("dark") ELSE Str("light")

\* a step leaves the applied theme, the three assets and the stored theme alone
ThemeUntouched ==
  UNCHANGED <<dataTheme, githubSrc, linkedinSrc, iconHref, themeItem>>

C24_MissingIconsTolerated ==
  ((~hasGithubIcon \/ ~hasLinkedInIcon) /\ themeEvent \in {"call", "toggle"}) =>
    /\ ~themeThrew
    /\ dataTheme # Null
    /\ themeEvent = "call" => dataTheme = themeCall[1]
    /\ hasGithubIcon => githubSrc = GithubVariant(dataTheme)
    /\ hasLinkedInIcon => linkedinSrc = LinkedInVariant(dataTheme)
    /\ (themeEvent = "toggle" \/ themeCall[2]) => themeItem = dataTheme

(***************************************************************************)
(* Properties of the navigation manager.                                   *)
(***************************************************************************)
\* the element the href names exists on the page
TargetExists(href) == Len(href) = 2 /\ href[1] = "#" /\ href[2] \in DOMAIN offsetTop

\* some link of #nav-links is an in-page anchor
SomeAnchorLink == \E h \in navHrefs : Len(h) > 0 /\ h[1] = "#"

MenuUnchanged == UNCHANGED <<navOpen, navActive, toggleActive>>

\* C25: in anchor mode the position asked for when a scroll timer fires is
\* max(0, offsetTop of the target - navHeight - 10), never negative (1000
\* with height 60 gives 930, offset 0 gives 0); navHeight is the height of
\* the navigation bar when the script ran, 60 if there is no bar or its
\* height is 0, and is not read again.
C25_ScrollPosition ==
  /\ [][navEvent' = "timer" =>
          LET top == offsetTop[Head(scrollTimers)[1]]
              raw == top - navHeight - 10
          IN  /\ scrollReq' = <<IF raw < 0 THEN 0 ELSE raw>>
              /\ scrollReq'[1] >= 0
              /\ (top = 1000 /\ navHeight = 60) => scrollReq' = <<930>>
              /\ top = 0 => scrollReq' = <<0>>]_vars
  /\ [][(navEvent' = "init" /\ navMode' = "anchor") =>
          navHeight' = IF hasNav /\ navOffsetHeight > 0 THEN navOffsetHeight ELSE 60]_vars
  /\ [][navMode = "anchor" => navHeight' = navHeight]_vars

\* a timer fired for the section 50 below the top, on a page whose bar was
\* 80 high when the script ran and is not any more: the position is 0
C25_Witness ==
  /\ navEvent = "timer"
  /\ navHrefs = {AboutLink, PrivacyLink}
  /\ offsetTop = ShortLayout
  /\ navHeight = 80
  /\ navOffsetHeight # 80
  /\ scrollReq = <<0>>

\* C26: in anchor mode a click on a link whose target exists removes "open"
\* from #nav-links and "active" from #menu-toggle and prevents the default
\* within the click, which asks for no scroll and starts one timer; the
\* scroll for a link is asked for only when a timer fires.
C26_LinkClickClosesThenScrolls ==
  /\ [][(navEvent' = "link" /\ navMode = "anchor" /\ TargetExists(navClicked')) =>
          /\ navOpen' = FALSE
          /\ toggleActive' = FALSE
          /\ defaultPrevented'
          /\ scrollReq' = <<>>
          /\ scrollY' = scrollY
          /\ scrollTimers' = Append(scrollTimers, <<navClicked'[2]>>)]_vars
  /\ [][(scrollReq' # <<>> /\ navEvent' # "logo") =>
          /\ navEvent' = "timer"
          /\ scrollTimers # <<>>
          /\ scrollTimers' = Tail(scrollTimers)]_vars

\* the services link was clicked: menu closed, timer pending, no scroll yet
C26_Witness ==
  /\ navEvent = "link"
  /\ navMode = "anchor"
  /\ navClicked = ServicesLink
  /\ defaultPrevented
  /\ ~navOpen
  /\ ~toggleActive
  /\ scrollTimers = <<<<"services-title">>>>
  /\ scrollReq = <<>>
  /\ scrollY = 0

\* C27: in anchor mode #nav-links carries "open" exactly if #menu-toggle
\* carries "active"; a hamburger click negates both, so a run of hamburger
\* clicks of even length ends in the menu state it started from and a run
\* of odd length in the opposite one.
C27_OpenIffActive ==
  /\ [](navMode = "anchor" => (navOpen <=> toggleActive))
  /\ [][(navEvent' = "toggle" /\ navMode = "anchor") =>
          /\ navOpen' = ~navOpen
          /\ toggleActive' = ~toggleActive]_vars
  /\ []((navMode = "anchor" /\ navEvent = "toggle") =>
          navOpen = (IF runOdd THEN ~runStart ELSE runStart))

\* a run of hamburger clicks of even length that started with the menu open
C27_Witness ==
  /\ navMode = "anchor"
  /\ navEvent = "toggle"
  /\ runStart
  /\ ~runOdd
  /\ navOpen
  /\ toggleActive

\* C28: a page with both menu elements gets exactly one of the two sets of
\* handlers, chosen when the script runs and kept: the anchor set exactly
\* if some link of #nav-links has an href that starts with "#".  With the
\* other set a hamburger click toggles "active" on #nav-links and nothing
\* else, a link click removes "active" and does not prevent the default,
\* no scroll is asked for, no timer started, and "open" is never set.
C28_ModeSelection ==
  /\ [](navMode \in {"unset", "anchor", "simple"})
  /\ [](navMode # "unset" => (navMode = "anchor" <=> SomeAnchorLink))
  /\ [][navMode # "unset" => navMode' = navMode]_vars
  /\ [][(navEvent' = "toggle" /\ navMode = "simple") =>
          /\ navActive' = ~navActive
          /\ UNCHANGED <<navOpen, toggleActive, scrollY, scrollTimers>>]_vars
  /\ [][(navEvent' = "link" /\ navMode = "simple") =>
          /\ navActive' = FALSE
          /\ ~defaultPrevented'
          /\ UNCHANGED <<navOpen, toggleActive, scrollY, scrollTimers>>]_vars
  /\ [](navMode = "simple" =>
          /\ ~navOpen
          /\ ~toggleActive
          /\ ~defaultPrevented
          /\ scrollReq = <<>>
          /\ scrollTimers = <<>>
          /\ scrollY = 0)

\* on the privacy page the menu was opened and a link was clicked
C28_Witness ==
  /\ navMode = "simple"
  /\ navHrefs = {PageHomeLink, PrivacyLink}
  /\ navEvent = "link"
  /\ navClicked = PrivacyLink
  /\ ~navActive
  /\ ~defaultPrevented

\* C29: on a page without #menu-toggle or without #nav-links the script
\* adds no handler and does not throw; every click after it leaves the
\* classes of the menu and the scroll position as they were, asks for no
\* scroll, starts no timer and prevents no default.
C29_MissingMenuElements ==
  /\ []((navMode # "unset" /\ (~hasMenuToggle \/ ~hasNavLinks)) =>
          /\ navMode = "none"
          /\ ~navThrew
          /\ ~defaultPrevented
          /\ scrollReq = <<>>
          /\ scrollTimers = <<>>)
  /\ [][(~hasMenuToggle \/ ~hasNavLinks) =>
          /\ MenuUnchanged
          /\ scrollY' = scrollY]_vars

\* a link was clicked on a page that has the links but no #menu-toggle
C29_Witness ==
  /\ ~hasMenuToggle
  /\ hasNavLinks
  /\ navMode = "none"
  /\ navEvent = "link"
  /\ navClicked = ServicesLink

\* C30: in anchor mode a click on the logo link prevents the default and
\* asks for a scroll to 0 within the click, starts no timer and leaves the
\* classes of the menu as they were; the script does not throw, with or
\* without a logo link.
C30_LogoClick ==
  /\ [][(navEvent' = "logo" /\ navMode = "anchor") =>
          /\ defaultPrevented'
          /\ scrollReq' = <<0>>
          /\ scrollY' = 0
          /\ scrollTimers' = scrollTimers
          /\ ~navThrew'
          /\ MenuUnchanged]_vars
  /\ [](navEvent = "init" => ~navThrew)
  /\ []((navEvent = "init" /\ SomeAnchorLink) => navMode = "anchor")

\* the logo was clicked while the menu was open and a scroll timer pending
C30_Witness ==
  /\ navEvent = "logo"
  /\ navMode = "anchor"
  /\ navOpen
  /\ toggleActive
  /\ scrollTimers # <<>>
  /\ scrollReq = <<0>>
  /\ defaultPrevented

(***************************************************************************)
(* Properties that span several steps or several managers.                 *)
(***************************************************************************)
\* C31: a consent choice whose setItem does not throw leaves as the stored
\* value a record of exactly the current version, a timestamp, the chosen
\* analytics and marketing and essential true, whatever was stored before;
\* no other step of the page changes the stored value, so the stored record
\* carries the choices of the most recent choice that was written.
C31_ChoiceOverwritesRecord ==
  /\ []((choice # <<>> /\ lastWrite = "ok") =>
          \E now \in Times :
            StoredRecord = Obj(<< <<"version", COOKIE_CONSENT_VERSION>>,
                                  <<"timestamp", Num(now)>>,
                                  <<"analytics", Bool(choice[1])>>,
                                  <<"marketing", Bool(choice[2])>>,
                                  <<"essential", Bool(TRUE)>> >>))
  /\ [][lastWrite' = "ok" => choice' # <<>>]_vars
  /\ [][lastWrite' # "ok" => storage' = storage]_vars

\* Reject All was written over the record of an earlier choice that had
\* granted both categories
C31_Witness ==
  /\ lastEvent = "rejectAll"
  /\ lastWrite = "ok"
  /\ choseA
  /\ choseM
  /\ Persisted(FALSE, FALSE)

\* the ids of the elements a link can name
TargetIds == DOMAIN IndexLayout

\* a timer for the element with this id is pending
Pending(id) == \E i \in 1..Len(scrollTimers) : scrollTimers[i] = <<id>>

\* seq is the beginning of longer
IsPrefix(seq, longer) ==
  /\ Len(seq) <= Len(longer)
  /\ \A i \in 1..Len(seq) : seq[i] = longer[i]

\* C32: a scroll timer cannot be cancelled: a hamburger click, a link click
\* or a logo click leaves every pending timer pending; the step that takes
\* a timer away is its callback, which asks for the scroll to its target
\* whatever the state of the menu; and a pending timer for a target leads
\* to the callback for that target.
C32_TimersNotCancellable ==
  /\ [][navEvent' # "timer" => IsPrefix(scrollTimers, scrollTimers')]_vars
  /\ [][navEvent' = "timer" =>
          /\ scrollTimers # <<>>
          /\ scrollTimers' = Tail(scrollTimers)
          /\ lastScrolled' = Head(scrollTimers)
          /\ scrollReq' # <<>>
          /\ MenuUnchanged]_vars
  /\ \A id \in TargetIds :
       Pending(id) ~> (navEvent = "timer" /\ lastScrolled = <<id>>)

\* the callback for the services section ran with the menu open again and
\* with the timer of a later click on the home link still pending
C32_Witness ==
  /\ navEvent = "timer"
  /\ lastScrolled = <<"services-title">>
  /\ scrollReq = <<930>>
  /\ navOpen
  /\ toggleActive
  /\ scrollTimers = << <<"home">> >>

\* C33: the value under the key "theme" changes, and setItem is called on
\* it, only in a toggleTheme(); the DOMContentLoaded listener and the change
\* listener leave the key as it is, and no event of the theme manager
\* removes a stored theme.
C33_ThemeKeyWrittenByToggleOnly ==
  /\ [][themeItem' # themeItem => (themeEvent' = "toggle" /\ themeWrite' = "ok")]_vars
  /\ [][themeWrite' # "none" => themeEvent' = "toggle"]_vars
  /\ [][themeEvent' \in {"DOMContentLoaded", "change"} =>
          (themeItem' = themeItem /\ themeWrite' = "none")]_vars
  /\ [][themeItem # Null => themeItem' # Null]_vars

\* the listener has applied the dark scheme of the environment and nothing is stored
C33_Witness ==
  /\ themeEvent = "change"
  /\ mediaListener
  /\ systemDark
  /\ dataTheme = Str("dark")
  /\ iconHref = FaviconVariant(Str("dark"))
  /\ themeItem = Null

\* C34: in anchor mode a click on a link whose href names no element of
\* the page removes "open" from #nav-links and "active" from #menu-toggle,
\* prevents the default, starts no timer, asks for no scroll and does not
\* throw.
C34_MissingTarget ==
  [][(navEvent' = "link" /\ navMode = "anchor" /\ ~TargetExists(navClicked')) =>
       /\ navOpen' = FALSE
       /\ toggleActive' = FALSE
       /\ defaultPrevented'
       /\ scrollTimers' = scrollTimers
       /\ scrollReq' = <<>>
       /\ scrollY' = scrollY
       /\ ~navThrew']_vars

C37_ReadsAgree ==
  lastEvent = "load" =>
    /\ Truthy(hasValidConsent(storage).val) <=> getConsentPreferences(storage).val # Null
    /\ timerPending <=> issued = <<>>

\* C38: with gtag defined and every setItem accepted, in every state of a
\* page whose script has run and whose stored value is a record of the
\* current version, the last update issued on the page is the one for the
\* analytics and marketing of that record.
C38_ApiFollowsStorage ==
  (phase = "ready" /\ StoredVersionMatches) =>
    lastUpdate = <<Expected(Truthy(StoredField("analytics")),
                            Truthy(StoredField("marketing")))>>

\* the dialog was opened again over the stored record of an
\* Accept Selected with analytics only
C38_Witness ==
  /\ lastEvent = "preferences"
  /\ writer = "acceptSelected"
  /\ choseA
  /\ ~choseM
  /\ analyticsChecked
  /\ Persisted(TRUE, FALSE)
  /\ lastUpdate = <<Expected(TRUE, FALSE)>>
  /\ shown

\* ---------------------------------------------------------------------------
\* C39  While the dialog is shown its checkboxes change only by an action of
\* the user (a checkbox click, Accept All, Reject All, or asking for the
\* preferences again) or by the page being replaced; a firing timer leaves
\* them as the user set them, also the first-visit timer that fires on a
\* dialog the user opened through the cookie-preferences control.

UserCheckboxEvents ==
  {"toggleAnalytics", "toggleMarketing", "acceptAll", "rejectAll",
   "preferences", "load", "unload"}

C39_CheckboxesChangeByUserOnly ==
  [][(shown /\ (analyticsChecked' # analyticsChecked
                  \/ marketingChecked' # marketingChecked))
       => lastEvent' \in UserCheckboxEvents]_vars

\* ---------------------------------------------------------------------------
\* C40: pending scrolls run in click order.  A click on an anchor link with
\* an existing target sets exactly one timer, behind the timers already
\* pending, and asks for no scroll itself; a timer step runs the oldest
\* pending timer and asks for exactly one scroll; so the newest pending timer
\* is always that of the link clicked last, and once no timer is pending the
\* last scroll asked for is that of the link clicked last.  When the clicks
\* on links stop, the timers run out.
C40_ScrollsInClickOrder ==
  /\ [][(navEvent' = "link" /\ navMode = "anchor" /\ TargetExists(navClicked'))
          => /\ scrollTimers' = Append(scrollTimers, <<navClicked'[2]>>)
             /\ scrollReq' = <<>>
             /\ lastClicked' = <<navClicked'[2]>>]_vars
  /\ [][navEvent' = "timer"
          => /\ scrollTimers # <<>>
             /\ lastScrolled' = Head(scrollTimers)
             /\ scrollTimers' = Tail(scrollTimers)
             /\ Len(scrollReq') = 1]_vars
  /\ [](scrollTimers # <<>> => lastClicked = scrollTimers[Len(scrollTimers)])
  /\ [](scrollTimers = <<>> => lastScrolled = lastClicked)
  /\ (<>[](navEvent # "link") => <>[](scrollTimers = <<>>))

\* the about link and then the services link were clicked; the timer of
\* the about link has run and that of the services link is pending
C40_Witness ==
  /\ navEvent = "timer"
  /\ lastScrolled = <<"about-title">>
  /\ lastClicked = <<"services-title">>
  /\ scrollTimers = << <<"services-title">> >>
  /\ Len(scrollReq) = 1
====
